---- MODULE Spec2Model ----
(***************************************************************************)
(* rethos (dist/tools/rethos/rethos.c): the host side of a reliable,       *)
(* multi-channel duplex link over a serial line.  The module models the    *)
(* Fletcher-16 accumulator, the frame codec, the receive state machine,    *)
(* the stop-and-wait link engine and the dispatcher loop of main().        *)
(*                                                                         *)
(* Bytes are numbers in 0..255.  The C code handles received and escaped   *)
(* bytes as plain `char`, whose signedness the build decides; charSigned   *)
(* is that choice, made once in the initial state.                         *)
(***************************************************************************)
EXTENDS Integers, Sequences, FiniteSets, TLC

VARIABLES
    charSigned,     \* the build: is plain char a signed type?
    serial,         \* serial_t serial (rethos.c:332-366, 744-745)
    event,          \* the last value _serial_handle_byte returned
    inbuf,          \* uint8_t inbuf[MTU]: the bytes the last read() put there
    i,              \* int i: index of the serial byte loop and of the channel loops
    tx,             \* codec harness: the frame that was encoded, and the bit flipped
    rx,             \* codec harness: how many FRAME_READY / FRAME_DROPPED so far
    pc,             \* where the dispatcher loop of main() stands
    activity,       \* int activity: what pselect returned
    readfds,        \* fd_set readfds after pselect
    interrupted,    \* timer_handler ran during the current pselect
    stats_fired,    \* volatile sig_atomic_t flags set by timer_handler
    rexmit_fired,
    ipaddr_fired,
    rexmit_armed,   \* rexmit_timer is armed (timer_settime with rexmit_timer_spec)
    rexmit_pending, \* a REXMIT SIGUSR1 raised before the timer was cancelled is still queued
    stats,          \* struct stats
    domain_sockets, \* channel_t domain_sockets[NUM_CHANNELS]
    have_stdin,     \* bool have_stdin
    tun_fd,         \* int tun_fd
    mcu_addr_rsp_frame, \* the bytes of struct mcu_addr_rsp_frame
    wire_in,        \* environment: bytes on the serial line, not yet read by the host
    peer,           \* environment: the peer's sender (last seqno, last DATA frame)
    events_left,    \* environment: how many more inputs, peer frames and periodic ticks may come
    client_in,      \* environment: per channel, what the connected client wrote and the host has not read yet
    client_read,    \* history: the read_message call of the last pass of the channel loop
    out,            \* what the last step wrote: frames, and payloads handed to consumers
    nsent,          \* history: number of rethos_send_data_frame calls
    unacked,        \* history: seqnos sent by rethos_send_data_frame, no ACK accepted yet
    acked,          \* history: seqnos for which an ACK was accepted
    last_sent,      \* history: the frame of the last rethos_send_data_frame call
    rexmits,        \* history: timeout retransmissions since that call, counted up to RexmitCap
    peer_sent,      \* history: per channel, the payloads the peer sent, in send order
    delivered       \* history: per channel, the payloads handed to a consumer, in order

codecvars == <<tx, rx>>
loopvars == <<pc, activity, readfds, interrupted>>
flagvars == <<stats_fired, rexmit_fired, ipaddr_fired>>
timervars == <<rexmit_armed, rexmit_pending>>
confvars == <<charSigned, tun_fd, mcu_addr_rsp_frame>>
envvars == <<wire_in, peer, events_left>>
clientvars == <<client_in, client_read>>
histvars == <<nsent, unacked, acked, last_sent, rexmits, peer_sent, delivered>>

vars == <<charSigned, serial, event, inbuf, i, tx, rx, pc, activity, readfds, interrupted,
          stats_fired, rexmit_fired, ipaddr_fired, rexmit_armed, rexmit_pending, stats,
          domain_sockets, have_stdin, tun_fd, mcu_addr_rsp_frame, wire_in, peer,
          events_left, client_in, client_read, out, nsent, unacked, acked, last_sent,
          rexmits,
          peer_sent, delivered>>

(***************************************************************************)
(* Program constants.                                                      *)
(***************************************************************************)
RETHOS_ESC_CHAR == 190
RETHOS_LITERAL_ESC == 85
RETHOS_FRAME_START == 239
RETHOS_FRAME_END == 229

RETHOS_FRAME_TYPE_DATA == 1
RETHOS_FRAME_TYPE_HB == 2
RETHOS_FRAME_TYPE_HB_REPLY == 3
RETHOS_FRAME_TYPE_ACK == 4
RETHOS_FRAME_TYPE_NACK == 5

RESERVED_CHANNEL == 0
STDIN_CHANNEL == 1
CMD_CHANNEL == 2
TUNTAP_CHANNEL == 3
NUM_CHANNELS == 256

CMD_GET_MCU_IP_ADDR == 1
RSP_GET_MCU_IP_ADDR == 17

STATS_TIMER_TYPE == 0
REXMIT_TIMER_TYPE == 1
IPADDR_TIMER_TYPE == 2

\* fletcher16_add reduces after every block of at most 20 bytes
FLETCHER_BLOCK == 20

\* MTU is 16384 in rethos.c:39; the model scales it down so that a payload of
\* exactly MTU bytes, and one byte more, are within reach of the check.  21 is
\* one more than FLETCHER_BLOCK, so a full payload spans two checksum blocks.
MTU == 21

U8 == 256
U16 == 65536

\* line_state_t
WAIT_FRAMESTART == "WAIT_FRAMESTART"
WAIT_FRAMETYPE == "WAIT_FRAMETYPE"
WAIT_SEQNO_1 == "WAIT_SEQNO_1"
WAIT_SEQNO_2 == "WAIT_SEQNO_2"
WAIT_CHANNEL == "WAIT_CHANNEL"
IN_FRAME == "IN_FRAME"
WAIT_CHECKSUM_1 == "WAIT_CHECKSUM_1"
WAIT_CHECKSUM_2 == "WAIT_CHECKSUM_2"

\* serial_event_t
NO_EVENT == "NO_EVENT"
FRAME_READY == "FRAME_READY"
FRAME_DROPPED == "FRAME_DROPPED"

(***************************************************************************)
(* C arithmetic on bytes.                                                  *)
(***************************************************************************)
\* a | b on non-negative integers
RECURSIVE BitOr(_, _)
BitOr(a, b) ==
    IF a = 0 THEN b
    ELSE IF b = 0 THEN a
    ELSE (IF a % 2 = 1 \/ b % 2 = 1 THEN 1 ELSE 0) + 2 * BitOr(a \div 2, b \div 2)

\* the value of a byte held in a plain char: -128..127 where char is signed
CharOf(b) == IF charSigned /\ b >= 128 THEN b - U8 ELSE b

\* (uint8_t) c and (uint16_t) c of a char value c
U8Of(c) == c % U8
U16Of(c) == c % U16

(***************************************************************************)
(* Fletcher-16 (rethos.c:368-390).                                         *)
(***************************************************************************)
\* s = (s & 0xff) + (s >> 8)
Fold(s) == (s % U8) + (s \div U8)

\* the inner do-while: sum2 += sum1 += *data++, in uint16_t
RECURSIVE fletcher16_block(_, _, _)
fletcher16_block(blk, sum1, sum2) ==
    IF blk = <<>> THEN <<sum1, sum2>>
    ELSE LET s1 == (sum1 + Head(blk)) % U16
             s2 == (sum2 + s1) % U16
         IN  fletcher16_block(Tail(blk), s1, s2)

RECURSIVE fletcher16_add(_, _, _)
fletcher16_add(data, sum1, sum2) ==
    IF Len(data) = 0 THEN <<sum1, sum2>>
    ELSE LET tlen == IF Len(data) > FLETCHER_BLOCK THEN FLETCHER_BLOCK ELSE Len(data)
             r == fletcher16_block(SubSeq(data, 1, tlen), sum1, sum2)
         IN  fletcher16_add(SubSeq(data, tlen + 1, Len(data)), Fold(r[1]), Fold(r[2]))

fletcher16_fin(sum1, sum2) == BitOr((Fold(sum2) * U8) % U16, Fold(sum1)) % U16

(***************************************************************************)
(* Encoder (rethos.c:317-319, 500-541).                                    *)
(***************************************************************************)
_esc_esc == <<RETHOS_ESC_CHAR, RETHOS_LITERAL_ESC>>
_start_frame == <<RETHOS_ESC_CHAR, RETHOS_FRAME_START>>
_end_frame == <<RETHOS_ESC_CHAR, RETHOS_FRAME_END>>

\* mutant: no byte is escaped
_write_escaped_NoEscape(buf) == buf

\* char c = (char) buf[i]; if (c == RETHOS_ESC_CHAR) write ESC LITERAL_ESC
RECURSIVE _write_escaped(_)
_write_escaped(buf) ==
    IF buf = <<>> THEN <<>>
    ELSE (IF CharOf(Head(buf)) = RETHOS_ESC_CHAR THEN _esc_esc ELSE <<Head(buf)>>)
         \o _write_escaped(Tail(buf))

\* the bytes _send_frame writes to the serial descriptor
_send_frame(data, channel, seqno, frame_type) ==
    LET preamble_buffer == <<frame_type, seqno % U8, (seqno \div U8) % U8, channel>>
        fl1 == fletcher16_add(preamble_buffer, 255, 255)
        fl2 == fletcher16_add(data, fl1[1], fl1[2])
        cksum == fletcher16_fin(fl2[1], fl2[2])
        postamble_buffer == <<cksum % U8, (cksum \div U8) % U8>>
    IN  _start_frame \o _write_escaped(preamble_buffer) \o _write_escaped(data)
        \o _end_frame \o _write_escaped(postamble_buffer)

(***************************************************************************)
(* Receive state machine (rethos.c:398-498).  Each operator returns the    *)
(* new serial_t and the event.                                             *)
(***************************************************************************)
\* done_char: serial->in_escape = false; return event
done_char(s, ev) == [serial |-> [s EXCEPT !.in_escape = FALSE], event |-> ev]

\* drop_frame_state: serial->state = WAIT_FRAMESTART, then done_char
drop_frame_state(s, ev) == done_char([s EXCEPT !.state = WAIT_FRAMESTART], ev)

\* handle_corrupt_frame: event = FRAME_DROPPED, then drop_frame_state
handle_corrupt_frame(s) == drop_frame_state(s, FRAME_DROPPED)

\* fletcher16_add((uint8_t*) &c, 1, &serial->sum1, &serial->sum2); goto done_char
update_checksum(s, c) ==
    LET r == fletcher16_add(<<U8Of(c)>>, s.sum1, s.sum2)
    IN  done_char([s EXCEPT !.sum1 = r[1], !.sum2 = r[2]], NO_EVENT)

\* mutant: the checksum is not compared
check_checksum_Skip(s) == drop_frame_state(s, FRAME_READY)

\* WAIT_CHECKSUM_2, after the high byte is stored
check_checksum(s) ==
    IF s.checksum # fletcher16_fin(s.sum1, s.sum2)
    THEN handle_corrupt_frame(s)
    ELSE drop_frame_state(s, FRAME_READY)

\* switch (serial->state), with c the char after escape processing
handle_state(s, c) ==
    CASE s.state = WAIT_FRAMESTART -> update_checksum(s, c)
      [] s.state = WAIT_FRAMETYPE ->
            update_checksum([s EXCEPT !.frametype = U8Of(c), !.state = WAIT_SEQNO_1], c)
      [] s.state = WAIT_SEQNO_1 ->
            update_checksum([s EXCEPT !.in_seqno = U8Of(c), !.state = WAIT_SEQNO_2], c)
      [] s.state = WAIT_SEQNO_2 ->
            update_checksum([s EXCEPT !.in_seqno = BitOr(s.in_seqno, U16Of(c) * U8) % U16,
                                      !.state = WAIT_CHANNEL], c)
      [] s.state = WAIT_CHANNEL ->
            update_checksum([s EXCEPT !.channel = U8Of(c), !.state = IN_FRAME,
                                      !.numbytes = 0, !.frame = <<>>], c)
      [] s.state = IN_FRAME ->
            IF s.numbytes >= MTU
            THEN handle_corrupt_frame(s)
            ELSE update_checksum([s EXCEPT !.frame = Append(s.frame, U8Of(c)),
                                           !.numbytes = s.numbytes + 1], c)
      [] s.state = WAIT_CHECKSUM_1 ->
            done_char([s EXCEPT !.checksum = U8Of(c), !.state = WAIT_CHECKSUM_2], NO_EVENT)
      [] s.state = WAIT_CHECKSUM_2 ->
            check_checksum([s EXCEPT !.checksum = BitOr(s.checksum, U16Of(c) * U8) % U16])

\* mutant: a start sequence inside a frame is treated as corruption
_serial_handle_byte_DropOnStart(s, b) ==
    LET c == CharOf(b) IN
    IF c = RETHOS_ESC_CHAR
    THEN [serial |-> [s EXCEPT !.in_escape = TRUE], event |-> NO_EVENT]
    ELSE IF s.in_escape
    THEN IF c = RETHOS_LITERAL_ESC
         THEN handle_state([s EXCEPT !.in_escape = FALSE], CharOf(RETHOS_ESC_CHAR))
         ELSE IF c = RETHOS_FRAME_START
         THEN IF s.state # WAIT_FRAMESTART
              THEN handle_corrupt_frame(s)
              ELSE done_char([s EXCEPT !.sum1 = 255, !.sum2 = 255,
                                       !.state = WAIT_FRAMETYPE], NO_EVENT)
         ELSE IF c = RETHOS_FRAME_END
         THEN IF s.state # IN_FRAME
              THEN handle_corrupt_frame(s)
              ELSE done_char([s EXCEPT !.state = WAIT_CHECKSUM_1], NO_EVENT)
         ELSE handle_corrupt_frame(s)
    ELSE handle_state(s, c)

\* _serial_handle_byte(serial, c) for the byte b read from the line
_serial_handle_byte(s, b) ==
    LET c == CharOf(b) IN
    IF c = RETHOS_ESC_CHAR
    THEN [serial |-> [s EXCEPT !.in_escape = TRUE], event |-> NO_EVENT]
    ELSE IF s.in_escape
    THEN IF c = RETHOS_LITERAL_ESC
         THEN handle_state([s EXCEPT !.in_escape = FALSE], CharOf(RETHOS_ESC_CHAR))
         ELSE IF c = RETHOS_FRAME_START
         THEN done_char([s EXCEPT !.sum1 = 255, !.sum2 = 255, !.state = WAIT_FRAMETYPE],
                        NO_EVENT)
         ELSE IF c = RETHOS_FRAME_END
         THEN IF s.state # IN_FRAME
              THEN handle_corrupt_frame(s)
              ELSE done_char([s EXCEPT !.state = WAIT_CHECKSUM_1], NO_EVENT)
         ELSE handle_corrupt_frame(s)
    ELSE handle_state(s, c)

\* serial_t serial = {0}; serial.rexmit_acked = true
serial_init ==
    [ sum1 |-> 0, sum2 |-> 0, state |-> WAIT_FRAMESTART, frametype |-> 0,
      in_seqno |-> 0, channel |-> 0, numbytes |-> 0, frame |-> <<>>, checksum |-> 0,
      in_escape |-> FALSE,
      out_seqno |-> 0,
      rexmit_seqno |-> 0, rexmit_channel |-> 0, rexmit_numbytes |-> 0,
      rexmit_frame |-> <<>>, rexmit_acked |-> TRUE,
      received_data_frame |-> FALSE, last_rcvd_seqno |-> 0 ]

(***************************************************************************)
(* The dispatcher's descriptors, channel table and statistics.             *)
(***************************************************************************)
\* descriptors are named, not numbered; NO_FD is -1
NO_FD == <<"none", -1>>
serial_fd == <<"serial", 0>>
STDIN_FILENO == <<"stdin", 0>>
TUN_FD == <<"tun", 0>>
ServerFd(c) == <<"server", c>>
ClientFd(c) == <<"client", c>>

\* the channel slots the model keeps: the reserved ones, one general-purpose
\* channel, and slot OTHER_CHANNEL standing for every other channel number
Channels == {RESERVED_CHANNEL, STDIN_CHANNEL, CMD_CHANNEL, TUNTAP_CHANNEL, 4}
OTHER_CHANNEL == 255
Slots == Channels \cup {OTHER_CHANNEL}
Slot(c) == IF c \in Channels THEN c ELSE OTHER_CHANNEL

\* channel_listen: chan->server_socket = dsock; chan->client_socket = -1
channel_listen(c) == [server_socket |-> ServerFd(c), client_socket |-> NO_FD]

global_stats_init ==
    [ serial_received |-> 0, domain_forwarded |-> 0, domain_received |-> 0,
      serial_forwarded |-> 0, lost_frames |-> 0, bad_frames |-> 0,
      drop_notconnected |-> 0 ]

channel_stats_init ==
    [ serial_received |-> 0, domain_forwarded |-> 0, drop_notconnected |-> 0,
      domain_received |-> 0, serial_forwarded |-> 0 ]

\* struct stats = {0}
stats_init == [global |-> global_stats_init, channel |-> [c \in Slots |-> channel_stats_init]]

(***************************************************************************)
(* What a step writes.  A frame entry records the arguments of _send_frame *)
(* and the bytes it writes; a delivery entry the consumer and the bytes    *)
(* handed to it.                                                           *)
(***************************************************************************)
Frame(via, data, channel, seqno, frame_type) ==
    [ via |-> via, frame_type |-> frame_type, seqno |-> seqno, channel |-> channel,
      data |-> data, bytes |-> _send_frame(data, channel, seqno, frame_type) ]

\* htonl(size) as four bytes
htonl(size) == << (size \div 16777216) % U8, (size \div U16) % U8,
                  (size \div U8) % U8, size % U8 >>

\* checked_write(fd, data): everything is written
Written(to, channel, data) ==
    [ via |-> to, frame_type |-> 0, seqno |-> 0, channel |-> channel,
      data |-> data, bytes |-> data ]

\* write_message(handle, buffer, nbyte): 4-byte length in network order, then the data
write_message(channel, data) ==
    [ via |-> "client", frame_type |-> 0, seqno |-> 0, channel |-> channel,
      data |-> data, bytes |-> htonl(Len(data)) \o data ]

IsFrame(e) == e.via \in {"data", "rexmit", "ack", "nack"}

(***************************************************************************)
(* Link engine: the senders (rethos.c:543-571).                            *)
(***************************************************************************)
\* mutant: the sequence number is not advanced
next_seqno_Same(s) == s.out_seqno

\* uint16_t seqno = ++serial->out_seqno
next_seqno(s) == (s.out_seqno + 1) % U16

\* mutant: the retransmit slot keeps its old payload
store_rexmit_KeepPayload(s, data, channel) ==
    [s EXCEPT !.out_seqno = next_seqno(s),
              !.rexmit_seqno = next_seqno(s),
              !.rexmit_channel = channel,
              !.rexmit_acked = FALSE]

\* rethos_send_data_frame, the part that changes serial_t
store_rexmit(s, data, channel) ==
    [s EXCEPT !.out_seqno = next_seqno(s),
              !.rexmit_seqno = next_seqno(s),
              !.rexmit_channel = channel,
              !.rexmit_numbytes = Len(data),
              !.rexmit_frame = data,
              !.rexmit_acked = FALSE]

\* rethos_send_data_frame, the frame it writes
rethos_send_data_frame(s, data, channel) ==
    Frame("data", data, channel, next_seqno(s), RETHOS_FRAME_TYPE_DATA)

\* mutant: the retransmission carries no payload
rethos_rexmit_data_frame_Empty(s) ==
    Frame("rexmit", <<>>, s.rexmit_channel, s.rexmit_seqno, RETHOS_FRAME_TYPE_DATA)

\* rethos_rexmit_data_frame
rethos_rexmit_data_frame(s) ==
    Frame("rexmit", s.rexmit_frame, s.rexmit_channel, s.rexmit_seqno, RETHOS_FRAME_TYPE_DATA)

\* rethos_send_ack_frame
rethos_send_ack_frame(seqno) ==
    Frame("ack", <<>>, RESERVED_CHANNEL, seqno, RETHOS_FRAME_TYPE_ACK)

\* rethos_send_nack_frame
rethos_send_nack_frame ==
    Frame("nack", <<>>, RESERVED_CHANNEL, 0, RETHOS_FRAME_TYPE_NACK)

\* the history of a rethos_send_data_frame call
SentData(f) ==
    /\ nsent' = nsent + 1
    /\ unacked' = unacked \cup {f.seqno}
    /\ last_sent' = [frame_type |-> f.frame_type, seqno |-> f.seqno,
                     channel |-> f.channel, data |-> f.data]
    /\ acked' = acked \ {f.seqno}
    /\ rexmits' = 0

(***************************************************************************)
(* Initial state of the dispatcher: main() up to the while loop.           *)
(***************************************************************************)
\* the values a byte that was never written may hold
Garbage == {0, 190}

\* the MCU address set from argv[3]: the /64 prefix, then ::2
McuAddr == <<32, 1, 13, 184, 0, 0, 0, 0, 0, 0, 0, 0, 0, 0, 0, 2>>

\* struct { char opcode; struct in6_addr mcu_addr; }: opcode, three bytes of
\* padding (in6_addr is 4-aligned), the 16 address bytes.  The padding is never
\* written; without argv[3] neither is the address.
RspFrames(tun) ==
    { <<RSP_GET_MCU_IP_ADDR, g, g, g>> \o
        (IF tun = NO_FD THEN [k \in 1..16 |-> g] ELSE McuAddr) : g \in Garbage }

no_frame == [frame_type |-> 0, seqno |-> 0, channel |-> 0, data |-> <<>>]

\* what main() sets up before the loop, apart from serial_t and the history
\* what a client wrote on its socket and the host has not read: the bytes, and
\* whether the client closed the socket after them
Stream(bytes, eof) == [bytes |-> bytes, eof |-> eof]
no_stream == Stream(<<>>, FALSE)

\* no read_message call in this pass of the loop
no_read == [channel |-> NUM_CHANNELS, stream |-> no_stream, status |-> 0,
            message_size |-> 0, consumed |-> 0]

LoopInit ==
    /\ event = NO_EVENT
    /\ pc = "pselect"
    /\ activity = 0
    /\ readfds = {}
    /\ interrupted = FALSE
    /\ stats_fired = 0
    /\ rexmit_fired = 0
    /\ ipaddr_fired = 0
    /\ rexmit_pending = FALSE
    /\ stats = stats_init
    /\ domain_sockets = [c \in Slots |-> channel_listen(c)]
    /\ have_stdin = TRUE
    /\ out = <<>>
    /\ client_in = [c \in Slots |-> no_stream]
    /\ client_read = no_read
    /\ peer_sent = [c \in Slots |-> <<>>]
    /\ delivered = [c \in Slots |-> <<>>]

\* serial_t after n IPADDR ticks with a silent line: n calls of
\* rethos_send_data_frame(&serial, &mcu_addr_rsp_frame, ..., CMD_CHANNEL)
Started(n) ==
    IF n = 0 THEN serial_init
    ELSE [serial_init EXCEPT !.out_seqno = n % U16,
                             !.rexmit_seqno = n % U16,
                             !.rexmit_channel = CMD_CHANNEL,
                             !.rexmit_numbytes = Len(mcu_addr_rsp_frame),
                             !.rexmit_frame = mcu_addr_rsp_frame,
                             !.rexmit_acked = FALSE]

\* the history kept from the n-th send on
StartedHistory(n) ==
    /\ nsent = n
    /\ acked = {}
    /\ unacked = IF n = 0 THEN {} ELSE {n % U16}
    /\ rexmits = 0
    /\ last_sent = IF n = 0 THEN no_frame
                   ELSE [frame_type |-> RETHOS_FRAME_TYPE_DATA, seqno |-> n % U16,
                         channel |-> CMD_CHANNEL, data |-> mcu_addr_rsp_frame]
    /\ rexmit_armed = (n # 0)

(***************************************************************************)
(* Bounds of the environment.                                              *)
(***************************************************************************)
\* events of the environment in one run: frames of the peer, local inputs
\* (standard input, tunnel, a client connecting, writing or closing), STATS
\* and IPADDR ticks
MaxEvents == 2

\* the history counts timeout retransmissions of one frame up to this number
RexmitCap == 2
\* descriptors other than the serial one that one pselect reports ready
MaxReady == 1
\* bytes the line holds before the host reads
MaxWire == 16

\* channels on which a local client connects
ClientChannels == {RESERVED_CHANNEL, 4}

\* the run starts where main() enters its loop, or WrapStart IPADDR ticks
\* later with nothing received meanwhile (two sends short of the wrap-around
\* of out_seqno)
WrapStart == 65534

\* the sequence number of the last DATA frame the peer sent before this program
\* was started: the peer counts on its own, so its next frame may carry any
\* number, 0 included
PeerStarts == {0, 65535}

Init ==
    /\ LoopInit
    /\ charSigned \in BOOLEAN
    /\ tun_fd \in {NO_FD, TUN_FD}
    /\ mcu_addr_rsp_frame \in RspFrames(tun_fd)
    /\ \E n \in {0, WrapStart}, ps \in PeerStarts :
          /\ serial = Started(n)
          /\ StartedHistory(n)
          /\ peer = [seqno |-> ps, last |-> no_frame]
          /\ n # 0 => ~charSigned /\ tun_fd = NO_FD /\ mcu_addr_rsp_frame[2] = 0
          /\ ps # 0 => n = 0 /\ ~charSigned /\ tun_fd = NO_FD /\ mcu_addr_rsp_frame[2] = 0
    /\ inbuf = <<>>
    /\ i = NUM_CHANNELS
    /\ wire_in = <<>>
    /\ events_left = MaxEvents
    /\ tx = no_frame
    /\ rx = [ready |-> 0, dropped |-> 0]

(***************************************************************************)
(* Timers and the readiness wait (rethos.c:119-140, 885-914).              *)
(***************************************************************************)
\* timer_handler runs only inside pselect, where SIGUSR1 is unblocked.  The
\* STATS and IPADDR timers are periodic and always armed (their ticks count as
\* events of the environment); a REXMIT signal needs the timer armed, or a
\* signal queued before it was cancelled.
\* mutant: the timer is disarmed by its expiry
expire_OneShot(armed) == FALSE

\* rexmit_timer_spec = { REXMIT_TIMEOUT, REXMIT_TIMEOUT }: it_interval is not
\* zero, so the timer is reloaded when it expires and stays armed
expire(armed) == armed

timer_handler(timer_type) ==
    /\ pc = "pselect"
    /\ \/ /\ timer_type = STATS_TIMER_TYPE
          /\ events_left > 0
          /\ stats_fired = 0
          /\ stats_fired' = 1
          /\ events_left' = events_left - 1
          /\ UNCHANGED <<rexmit_fired, ipaddr_fired, timervars>>
       \/ /\ timer_type = REXMIT_TIMER_TYPE
          /\ rexmit_armed \/ rexmit_pending
          /\ rexmit_fired' = 1
          /\ rexmit_pending' = FALSE
          /\ rexmit_armed' = expire(rexmit_armed)
          /\ UNCHANGED <<stats_fired, ipaddr_fired, events_left>>
       \/ /\ timer_type = IPADDR_TIMER_TYPE
          /\ events_left > 0
          /\ ipaddr_fired = 0
          /\ ipaddr_fired' = 1
          /\ events_left' = events_left - 1
          /\ UNCHANGED <<stats_fired, rexmit_fired, timervars>>
    /\ interrupted' = TRUE
    /\ out' = <<>>
    /\ UNCHANGED <<serial, event, inbuf, i, codecvars, pc, activity, readfds,
                   stats, domain_sockets, have_stdin, confvars, clientvars, wire_in, peer,
                   histvars>>

\* the descriptors the loop puts in readfds for channel c
WatchedFd(c) ==
    IF domain_sockets[c].client_socket = NO_FD
    THEN domain_sockets[c].server_socket
    ELSE domain_sockets[c].client_socket

\* connected clients whose socket still holds unread bytes or an end of file
Pending ==
    {c \in Slots : /\ domain_sockets[c].client_socket # NO_FD
                   /\ client_in[c] # no_stream}

\* descriptors on which the environment may have new input: standard input, the
\* tunnel, a connecting client, a connected client's message or close
LocalSources ==
    (IF have_stdin THEN {STDIN_FILENO} ELSE {})
    \cup (IF tun_fd # NO_FD THEN {tun_fd} ELSE {})
    \cup {WatchedFd(c) : c \in ClientChannels \ Pending}

\* FD_ZERO, FD_SET: what the loop asks pselect about
Watched ==
    (IF have_stdin THEN {STDIN_FILENO} ELSE {})
    \cup (IF tun_fd # NO_FD THEN {tun_fd} ELSE {})
    \cup {serial_fd} \cup {WatchedFd(c) : c \in Slots}

\* pselect returns: -1 (EINTR) after timer_handler ran, else the number of
\* ready descriptors; the serial descriptor is ready when the line holds bytes,
\* or on hang-up
pselect ==
    /\ pc = "pselect"
    /\ IF interrupted
       THEN /\ activity' = -1
            /\ readfds' = Watched
            /\ UNCHANGED events_left
       ELSE \E E \in SUBSET LocalSources, hup \in BOOLEAN :
              LET ready == E \cup (IF wire_in # <<>> \/ hup THEN {serial_fd} ELSE {})
                             \cup {WatchedFd(c) : c \in Pending}
                  ndata == Cardinality(E)
              IN  /\ Cardinality(E) <= MaxReady
                  /\ ndata <= events_left
                  /\ hup => wire_in = <<>>
                  /\ ready # {}
                  /\ readfds' = ready
                  /\ activity' = Cardinality(ready)
                  /\ events_left' = events_left - ndata
    /\ interrupted' = FALSE
    /\ pc' = "stats"
    /\ out' = <<>>
    /\ client_read' = no_read
    /\ UNCHANGED <<serial, event, inbuf, i, codecvars, flagvars, timervars, stats,
                   domain_sockets, have_stdin, confvars, client_in, wire_in, peer,
                   histvars>>

\* mutant: the STATS flag is left set
HandleStats_KeepFlag ==
    /\ pc = "stats"
    /\ out' = IF stats_fired = 1 /\ domain_sockets[RESERVED_CHANNEL].client_socket # NO_FD
              THEN <<[write_message(RESERVED_CHANNEL, <<>>) EXCEPT !.via = "stats"]>>
              ELSE <<>>
    /\ pc' = "rexmit"
    /\ UNCHANGED <<serial, event, inbuf, i, codecvars, activity, readfds, interrupted,
                   flagvars, timervars, stats, domain_sockets,
                   have_stdin, confvars, clientvars, envvars, histvars>>

\* if (stats_fired == 1): print the counters, and write the whole struct stats
\* to a client connected on channel 0
HandleStats ==
    /\ pc = "stats"
    /\ IF stats_fired = 1
       THEN /\ stats_fired' = 0
            /\ out' = IF domain_sockets[RESERVED_CHANNEL].client_socket # NO_FD
                      THEN <<[write_message(RESERVED_CHANNEL, <<>>) EXCEPT !.via = "stats"]>>
                      ELSE <<>>
       ELSE /\ out' = <<>>
            /\ UNCHANGED stats_fired
    /\ pc' = "rexmit"
    /\ UNCHANGED <<serial, event, inbuf, i, codecvars, activity, readfds, interrupted,
                   rexmit_fired, ipaddr_fired, timervars, stats, domain_sockets,
                   have_stdin, confvars, clientvars, envvars, histvars>>

\* if (rexmit_fired == 1): retransmit unless the slot is acked
HandleRexmit ==
    /\ pc = "rexmit"
    /\ IF rexmit_fired = 1
       THEN /\ rexmit_fired' = 0
            /\ out' = IF ~serial.rexmit_acked THEN <<rethos_rexmit_data_frame(serial)>>
                      ELSE <<>>
            /\ rexmits' = IF ~serial.rexmit_acked /\ rexmits < RexmitCap
                          THEN rexmits + 1 ELSE rexmits
       ELSE /\ out' = <<>>
            /\ UNCHANGED <<rexmit_fired, rexmits>>
    /\ pc' = "ipaddr"
    /\ UNCHANGED <<serial, event, inbuf, i, codecvars, activity, readfds, interrupted,
                   stats_fired, ipaddr_fired, timervars, stats, domain_sockets,
                   have_stdin, confvars, clientvars, envvars, nsent, unacked, acked,
                   last_sent, peer_sent, delivered>>

\* if (ipaddr_fired == 1): send the address frame on the command channel;
\* then, if (activity == -1) continue
HandleIpaddr ==
    /\ pc = "ipaddr"
    /\ IF ipaddr_fired = 1
       THEN /\ ipaddr_fired' = 0
            /\ serial' = store_rexmit(serial, mcu_addr_rsp_frame, CMD_CHANNEL)
            /\ out' = <<rethos_send_data_frame(serial, mcu_addr_rsp_frame, CMD_CHANNEL)>>
            /\ rexmit_armed' = TRUE
            /\ SentData(rethos_send_data_frame(serial, mcu_addr_rsp_frame, CMD_CHANNEL))
       ELSE /\ out' = <<>>
            /\ UNCHANGED <<ipaddr_fired, serial, rexmit_armed, nsent, unacked, acked,
                           last_sent, rexmits>>
    /\ pc' = IF activity = -1 THEN "pselect" ELSE "serial"
    /\ UNCHANGED <<event, inbuf, i, codecvars, activity, readfds, interrupted,
                   stats_fired, rexmit_fired, rexmit_pending, stats, domain_sockets,
                   have_stdin, confvars, clientvars, envvars, peer_sent, delivered>>

(***************************************************************************)
(* The serial descriptor (rethos.c:954-1081).                              *)
(***************************************************************************)
Min(a, b) == IF a < b THEN a ELSE b

\* what read() may return when the line holds len bytes: all that fits in
\* inbuf, or only the first few
ShortRead == 5
ReadSizes(len) == {Min(len, MTU)} \cup {n \in {ShortRead} : n < len}

\* ssize_t n = read(serial_fd, inbuf, sizeof(inbuf)): some prefix of what the
\* line holds; n <= 0 is fatal
SerialRead ==
    /\ pc = "serial"
    /\ out' = <<>>
    /\ IF serial_fd \in readfds
       THEN IF wire_in = <<>>
            THEN /\ pc' = "exit"
                 /\ UNCHANGED <<inbuf, i, wire_in>>
            ELSE \E n \in ReadSizes(Len(wire_in)) :
                    /\ inbuf' = SubSeq(wire_in, 1, n)
                    /\ wire_in' = SubSeq(wire_in, n + 1, Len(wire_in))
                    /\ i' = 0
                    /\ pc' = "serial_loop"
       ELSE /\ pc' = "stdin"
            /\ UNCHANGED <<inbuf, i, wire_in>>
    /\ UNCHANGED <<serial, event, codecvars, activity, readfds, interrupted, flagvars,
                   timervars, stats, domain_sockets, have_stdin, confvars, clientvars, peer,
                   events_left, histvars>>

\* counter += delta in uint64_t, kept as an integer congruent to it modulo 2^64
AddU64(counter, delta) == counter + delta

\* the order of two uint64_t counters held as such representatives: a negative
\* representative r stands for 2^64 + r
U64Less(a, b) ==
    \/ a >= 0 /\ b >= 0 /\ a < b
    \/ a >= 0 /\ b < 0
    \/ a < 0 /\ b < 0 /\ a < b

\* mutant: only the global counter is incremented
CountSerialReceived_GlobalOnly(st, ch) ==
    [st EXCEPT !.global.serial_received = @ + 1]

CountSerialReceived(st, ch) ==
    [st EXCEPT !.channel[Slot(ch)].serial_received = @ + 1,
               !.global.serial_received = @ + 1]

\* what the FRAME_READY branch does: the new serial_t and statistics, what it
\* writes (in order), whether it cancels the REXMIT timer, the DATA frame it
\* sends, whether the payload reached a consumer, whether it leaves the byte loop
Effect(s, st, o, cancel, sent, consumed, goto_done) ==
    [ serial |-> s, stats |-> st, out |-> o, cancel |-> cancel, sent |-> sent,
      consumed |-> consumed, goto_done |-> goto_done ]

\* mutant: a NACK is answered with a NACK
on_nack_Reply(s, st) ==
    Effect(s, st, <<rethos_send_nack_frame>>, FALSE, <<>>, FALSE, TRUE)

\* channel 0, frame type NACK
on_nack(s, st) ==
    Effect(s, st,
           IF s.rexmit_acked
           THEN (IF s.received_data_frame
                 THEN <<rethos_send_ack_frame(s.last_rcvd_seqno)>> ELSE <<>>)
           ELSE <<rethos_rexmit_data_frame(s)>>,
           FALSE, <<>>, FALSE, TRUE)

\* mutant: any ACK is taken for the ACK of the slot
on_ack_Any(s, st) ==
    Effect([s EXCEPT !.rexmit_acked = TRUE], st, <<>>, TRUE, <<>>, FALSE, TRUE)

\* mutant: the matching ACK does not cancel the REXMIT timer
on_ack_NoCancel(s, st) ==
    IF s.in_seqno = s.rexmit_seqno
    THEN Effect([s EXCEPT !.rexmit_acked = TRUE], st, <<>>, FALSE, <<>>, FALSE, TRUE)
    ELSE Effect(s, st, <<>>, FALSE, <<>>, FALSE, TRUE)

\* channel 0, frame type ACK
on_ack(s, st) ==
    IF s.in_seqno = s.rexmit_seqno
    THEN Effect([s EXCEPT !.rexmit_acked = TRUE], st, <<>>, TRUE, <<>>, FALSE, TRUE)
    ELSE Effect(s, st, <<>>, FALSE, <<>>, FALSE, TRUE)

\* mutant: no frame is taken for a duplicate
is_duplicate_Never(s) == FALSE

\* if (serial.received_data_frame && serial.in_seqno == serial.last_rcvd_seqno)
is_duplicate(s) == s.received_data_frame /\ s.in_seqno = s.last_rcvd_seqno

\* mutant: a connected client replaces the built-in consumer
deliver_ClientOnly(s, st) ==
    LET ch == s.channel
        connected == domain_sockets[Slot(ch)].client_socket # NO_FD
        builtin == IF connected THEN <<>>
                   ELSE IF ch = STDIN_CHANNEL THEN <<Written("stdout", ch, s.frame)>>
                   ELSE IF ch = TUNTAP_CHANNEL /\ tun_fd # NO_FD
                   THEN <<Written("tun", ch, s.frame)>>
                   ELSE <<>>
        toclient == IF connected THEN <<write_message(ch, s.frame)>> ELSE <<>>
        st1 == IF connected
               THEN [st EXCEPT !.channel[Slot(ch)].domain_forwarded = @ + 1,
                               !.global.domain_forwarded = @ + 1]
               ELSE [st EXCEPT !.channel[Slot(ch)].drop_notconnected = @ + 1,
                               !.global.drop_notconnected =
                                   IF ch # STDIN_CHANNEL /\ ch # TUNTAP_CHANNEL
                                   THEN @ + 1 ELSE @]
    IN  Effect(s, st1, builtin \o toclient, FALSE, <<>>, TRUE, FALSE)

\* the built-in consumer of the channel, the command reply, then the client
deliver(s, st) ==
    LET ch == s.channel
        builtin == IF ch = STDIN_CHANNEL THEN <<Written("stdout", ch, s.frame)>>
                   ELSE IF ch = TUNTAP_CHANNEL /\ tun_fd # NO_FD
                   THEN <<Written("tun", ch, s.frame)>>
                   ELSE <<>>
        reply == ch = CMD_CHANNEL /\ s.numbytes # 0 /\ s.frame[1] = CMD_GET_MCU_IP_ADDR
        sent == IF reply
                THEN <<rethos_send_data_frame(s, mcu_addr_rsp_frame, CMD_CHANNEL)>>
                ELSE <<>>
        s1 == IF reply THEN store_rexmit(s, mcu_addr_rsp_frame, CMD_CHANNEL) ELSE s
        connected == domain_sockets[Slot(ch)].client_socket # NO_FD
        toclient == IF connected THEN <<write_message(ch, s.frame)>> ELSE <<>>
        st1 == IF connected
               THEN [st EXCEPT !.channel[Slot(ch)].domain_forwarded = @ + 1,
                               !.global.domain_forwarded = @ + 1]
               ELSE [st EXCEPT !.channel[Slot(ch)].drop_notconnected = @ + 1,
                               !.global.drop_notconnected =
                                   IF ch # STDIN_CHANNEL /\ ch # TUNTAP_CHANNEL
                                   THEN @ + 1 ELSE @]
        consumed == builtin # <<>> \/ ch = CMD_CHANNEL \/ connected
    IN  Effect(s1, st1, builtin \o sent \o toclient, FALSE, sent, consumed, FALSE)

\* mutant: the ACK is written after the deliveries
on_data_AckLast(s, st) ==
    LET ack == <<rethos_send_ack_frame(s.in_seqno)>> IN
    IF is_duplicate(s)
    THEN Effect(s, st, ack, FALSE, <<>>, FALSE, TRUE)
    ELSE LET s1 == [s EXCEPT !.received_data_frame = TRUE,
                             !.last_rcvd_seqno = s.in_seqno]
             st1 == [st EXCEPT !.global.lost_frames =
                                   AddU64(@, s.in_seqno - s.last_rcvd_seqno - 1)]
         IN  IF s.numbytes = 0
             THEN Effect(s1, st1, ack, FALSE, <<>>, FALSE, TRUE)
             ELSE LET d == deliver(s1, st1)
                  IN  [d EXCEPT !.out = d.out \o ack]

\* channel >= 1: ACK, duplicate check, loss accounting, delivery
on_data(s, st) ==
    LET ack == <<rethos_send_ack_frame(s.in_seqno)>> IN
    IF is_duplicate(s)
    THEN Effect(s, st, ack, FALSE, <<>>, FALSE, TRUE)
    ELSE LET s1 == [s EXCEPT !.received_data_frame = TRUE,
                             !.last_rcvd_seqno = s.in_seqno]
             st1 == [st EXCEPT !.global.lost_frames =
                                   AddU64(@, s.in_seqno - s.last_rcvd_seqno - 1)]
         IN  IF s.numbytes = 0
             THEN Effect(s1, st1, ack, FALSE, <<>>, FALSE, TRUE)
             ELSE LET d == deliver(s1, st1)
                  IN  [d EXCEPT !.out = ack \o d.out]

\* if (event == FRAME_READY) { ... }
frame_ready(s, st) ==
    LET st1 == CountSerialReceived(st, s.channel) IN
    IF s.channel = RESERVED_CHANNEL
    THEN IF s.frametype = RETHOS_FRAME_TYPE_NACK THEN on_nack(s, st1)
         ELSE IF s.frametype = RETHOS_FRAME_TYPE_ACK THEN on_ack(s, st1)
         ELSE Effect(s, st1, <<>>, FALSE, <<>>, FALSE, TRUE)
    ELSE on_data(s, st1)

\* mutant: sending the NACK cancels the REXMIT timer
frame_dropped_Cancels(s, st) ==
    Effect(s, [st EXCEPT !.global.bad_frames = @ + 1, !.global.lost_frames = @ + 1],
           <<rethos_send_nack_frame>>, TRUE, <<>>, FALSE, FALSE)

\* else if (event == FRAME_DROPPED) { ... }
frame_dropped(s, st) ==
    Effect(s, [st EXCEPT !.global.bad_frames = @ + 1, !.global.lost_frames = @ + 1],
           <<rethos_send_nack_frame>>, FALSE, <<>>, FALSE, FALSE)

\* one iteration of the byte loop: _serial_handle_byte and the event's branch.
\* goto serial_done leaves the loop with the rest of inbuf unread.
SerialByte ==
    /\ pc = "serial_loop"
    /\ i < Len(inbuf)
    /\ LET r == _serial_handle_byte(serial, inbuf[i + 1])
           e == IF r.event = FRAME_READY THEN frame_ready(r.serial, stats)
                ELSE IF r.event = FRAME_DROPPED THEN frame_dropped(r.serial, stats)
                ELSE Effect(r.serial, stats, <<>>, FALSE, <<>>, FALSE, FALSE)
       IN  /\ event' = r.event
           /\ serial' = e.serial
           /\ stats' = e.stats
           /\ out' = e.out
           /\ pc' = IF e.goto_done \/ i + 1 = Len(inbuf) THEN "stdin" ELSE "serial_loop"
           /\ i' = IF e.goto_done THEN i ELSE i + 1
           /\ IF e.sent # <<>>
              THEN /\ rexmit_armed' = TRUE
                   /\ SentData(e.sent[1])
                   /\ UNCHANGED rexmit_pending
              ELSE IF e.cancel
              THEN /\ rexmit_armed' = FALSE
                   /\ rexmit_pending' \in (IF rexmit_armed THEN BOOLEAN ELSE {rexmit_pending})
                   /\ acked' = acked \cup {r.serial.in_seqno}
                   /\ unacked' = unacked \ {r.serial.in_seqno}
                   /\ UNCHANGED <<nsent, last_sent, rexmits>>
              ELSE UNCHANGED <<timervars, nsent, unacked, acked, last_sent, rexmits>>
           /\ delivered' = IF e.consumed
                           THEN [delivered EXCEPT ![Slot(r.serial.channel)] =
                                                      Append(@, r.serial.frame)]
                           ELSE delivered
    /\ UNCHANGED <<inbuf, codecvars, activity, readfds, interrupted, flagvars,
                   domain_sockets, have_stdin, confvars, clientvars, envvars, peer_sent>>

(***************************************************************************)
(* Local inputs: standard input, the tunnel, the channel sockets           *)
(* (rethos.c:1081-1148).                                                   *)
(***************************************************************************)
\* what read() on standard input or on the tunnel returns: nothing (res <= 0)
\* or one of these
LocalPayloads == { <<7, 190>> }

\* a call of rethos_send_data_frame from the loop: the slot, the frame, the timer
SendDataFrame(data, channel) ==
    /\ serial' = store_rexmit(serial, data, channel)
    /\ out' = <<rethos_send_data_frame(serial, data, channel)>>
    /\ rexmit_armed' = TRUE
    /\ SentData(rethos_send_data_frame(serial, data, channel))
    /\ UNCHANGED rexmit_pending

NoSend ==
    /\ out' = <<>>
    /\ UNCHANGED <<serial, timervars, nsent, unacked, acked, last_sent, rexmits>>

\* if (FD_ISSET(STDIN_FILENO, &readfds))
StdinStep ==
    /\ pc = "stdin"
    /\ IF STDIN_FILENO \in readfds
       THEN \E res \in {<<>>} \cup LocalPayloads :
              IF res = <<>>
              THEN /\ have_stdin' = FALSE
                   /\ pc' = "pselect"
                   /\ NoSend
                   /\ UNCHANGED inbuf
              ELSE /\ inbuf' = res
                   /\ SendDataFrame(res, STDIN_CHANNEL)
                   /\ pc' = "tun"
                   /\ UNCHANGED have_stdin
       ELSE /\ pc' = "tun"
            /\ NoSend
            /\ UNCHANGED <<have_stdin, inbuf>>
    /\ i' = IF pc' = "pselect" THEN NUM_CHANNELS ELSE i
    /\ UNCHANGED <<event, codecvars, activity, readfds, interrupted, flagvars, stats,
                   domain_sockets, confvars, clientvars, envvars, peer_sent, delivered>>

\* if (tun_fd != -1 && FD_ISSET(tun_fd, &readfds)); then for (i = 0; ...
TunStep ==
    /\ pc = "tun"
    /\ IF tun_fd # NO_FD /\ tun_fd \in readfds
       THEN \E res \in {<<>>} \cup LocalPayloads :
              IF res = <<>>
              THEN /\ pc' = "pselect"
                   /\ i' = NUM_CHANNELS
                   /\ NoSend
                   /\ UNCHANGED inbuf
              ELSE /\ inbuf' = res
                   /\ SendDataFrame(res, TUNTAP_CHANNEL)
                   /\ pc' = "chan"
                   /\ i' = 0
       ELSE /\ pc' = "chan"
            /\ i' = 0
            /\ NoSend
            /\ UNCHANGED inbuf
    /\ UNCHANGED <<event, codecvars, activity, readfds, interrupted, flagvars, stats,
                   domain_sockets, have_stdin, confvars, clientvars, envvars, peer_sent,
                   delivered>>

\* what a connected client has written when its socket is reported readable:
\* the bytes, and whether it then closed the socket
ClientStreams ==
    { Stream(<<>>, TRUE),                                  \* closed
      Stream(<<0, 0>>, TRUE),                              \* half a length, closed
      Stream(htonl(1) \o <<7>>, FALSE),                    \* a message
      Stream(htonl(2) \o <<8>>, TRUE),                     \* a short body, closed
      Stream(htonl(MTU + 1) \o [k \in 1..MTU + 1 |-> 9]       \* too long, and
                 \o htonl(1) \o <<7>>, FALSE),                \* a message after it
      Stream(htonl(1), FALSE) }                            \* a length and nothing more

READ_SUCCESS == 0
READ_EOF == 1
READ_PARTIAL == 2
READ_OVERFLOW == 3
\* not a status of the code: checked_read never returns
READ_BLOCKED == 4

ntohl(b) == ((b[1] * U8 + b[2]) * U8 + b[3]) * U8 + b[4]

\* checked_read(fd, buffer, toread) on what is left of the stream: the bytes
\* consumed, or blocked when the stream runs dry without end of file
checked_read(st, from, toread) ==
    LET avail == IF Len(st.bytes) > from THEN Len(st.bytes) - from ELSE 0 IN
    IF avail >= toread THEN [blocked |-> FALSE, consumed |-> toread]
    ELSE [blocked |-> ~st.eof, consumed |-> avail]

drain_None(st, from, remaining) == [blocked |-> FALSE, consumed |-> 0]

\* while (remaining != 0) { checked_read(handle, &sbuf, 1); remaining--; }
drain(st, from, remaining) == checked_read(st, from, remaining)

\* read_message(&status, handle, buffer, buffer_size): status, returned size,
\* the bytes of the stream placed in the buffer, and how many bytes of the
\* stream the call consumed
read_message(st, buffer_size) ==
    LET hdr == checked_read(st, 0, 4)
        message_size == ntohl(st.bytes)
        bytes_to_read == Min(message_size, buffer_size)
        body == checked_read(st, 4, bytes_to_read)
        got == SubSeq(st.bytes, 5, 4 + body.consumed)
        rest == drain(st, 4 + body.consumed, message_size - buffer_size)
        Result(status, size, data, consumed) ==
            [status |-> status, size |-> size, data |-> data, consumed |-> consumed]
    IN  IF hdr.blocked THEN Result(READ_BLOCKED, 0, <<>>, hdr.consumed)
        ELSE IF hdr.consumed # 4
        THEN Result(IF hdr.consumed = 0 THEN READ_EOF ELSE READ_PARTIAL, 0, <<>>,
                    hdr.consumed)
        ELSE IF body.blocked THEN Result(READ_BLOCKED, 0, got, 4 + body.consumed)
        ELSE IF message_size > buffer_size
        THEN Result(IF rest.blocked THEN READ_BLOCKED ELSE READ_OVERFLOW,
                    message_size, got, 4 + body.consumed + rest.consumed)
        ELSE Result(READ_SUCCESS, message_size, got, 4 + body.consumed)

\* what is left of the stream after a call that consumed n bytes of it
StreamAfter(st, n) == Stream(SubSeq(st.bytes, n + 1, Len(st.bytes)), st.eof)

\* the first message_size bytes of inbuf after read_message stored data at its
\* start: what was read, then whatever the buffer held before
BufferAfter(data, size, g) ==
    [k \in 1..size |-> IF k <= Len(data) THEN data[k]
                       ELSE IF k <= Len(inbuf) THEN inbuf[k] ELSE g]

accept_client_KeepListening(c) ==
    [server_socket |-> ServerFd(c), client_socket |-> ClientFd(c)]

\* accept on the listening socket: the slot takes the client's descriptor, and
\* the listening socket is closed
accept_client(c) == [server_socket |-> NO_FD, client_socket |-> ClientFd(c)]

\* the lowest channel at or after i whose descriptor is in readfds
ReadyChannels == {c \in Slots : c >= i /\ WatchedFd(c) \in readfds}
NextChannel == CHOOSE c \in ReadyChannels : \A d \in ReadyChannels : c <= d

\* one iteration of for (i = 0; i < NUM_CHANNELS; i++) that finds its descriptor
\* ready, or the end of the loop
ChannelStep ==
    /\ pc = "chan"
    /\ IF ReadyChannels = {}
       THEN /\ pc' = "pselect"
            /\ i' = NUM_CHANNELS
            /\ NoSend
            /\ UNCHANGED <<inbuf, stats, domain_sockets, clientvars>>
       ELSE LET c == NextChannel IN
            /\ i' = c + 1
            /\ IF domain_sockets[c].client_socket = NO_FD
               THEN /\ domain_sockets' = [domain_sockets EXCEPT ![c] = accept_client(c)]
                    /\ pc' = "chan"
                    /\ NoSend
                    /\ UNCHANGED <<inbuf, stats, clientvars>>
               ELSE \E st \in (IF c \in Pending THEN {client_in[c]} ELSE ClientStreams),
                       g \in Garbage :
                      LET m == read_message(st, MTU)
                          data == BufferAfter(m.data, m.size, g)
                      IN
                      /\ client_read' = [channel |-> c, stream |-> st, status |-> m.status,
                                         message_size |-> m.size, consumed |-> m.consumed]
                      /\ client_in' = [client_in EXCEPT ![c] =
                                         IF m.status \in {READ_PARTIAL, READ_EOF}
                                         THEN no_stream
                                         ELSE IF m.status = READ_BLOCKED THEN st
                                         ELSE StreamAfter(st, m.consumed)]
                      /\  CASE m.status = READ_SUCCESS ->
                                 /\ inbuf' = data
                                 /\ stats' = [stats EXCEPT
                                       !.channel[c].domain_received = @ + 1,
                                       !.global.domain_received = @ + 1,
                                       !.channel[c].serial_forwarded = @ + 1,
                                       !.global.serial_forwarded = @ + 1]
                                 /\ SendDataFrame(data, c)
                                 /\ pc' = "chan"
                                 /\ UNCHANGED domain_sockets
                            [] m.status = READ_OVERFLOW ->
                                 /\ inbuf' = m.data
                                 /\ pc' = "chan"
                                 /\ NoSend
                                 /\ UNCHANGED <<stats, domain_sockets>>
                            [] m.status \in {READ_PARTIAL, READ_EOF} ->
                                 /\ domain_sockets' = [domain_sockets EXCEPT
                                                         ![c] = channel_listen(c)]
                                 /\ pc' = "chan"
                                 /\ NoSend
                                 /\ UNCHANGED <<inbuf, stats>>
                            [] m.status = READ_BLOCKED ->
                                 /\ pc' = "blocked"
                                 /\ NoSend
                                 /\ UNCHANGED <<inbuf, stats, domain_sockets>>
    /\ UNCHANGED <<event, codecvars, activity, readfds, interrupted, flagvars,
                   have_stdin, confvars, envvars, peer_sent, delivered>>

(***************************************************************************)
(* Codec harness: a frame is encoded by _send_frame, one bit of it may be   *)
(* flipped on the line, and the bytes are fed one by one to                 *)
(* _serial_handle_byte starting in WAIT_FRAMESTART.                         *)
(***************************************************************************)
CodecTypes == { RETHOS_FRAME_TYPE_DATA, RETHOS_FRAME_TYPE_HB, RETHOS_FRAME_TYPE_HB_REPLY,
                RETHOS_FRAME_TYPE_ACK, RETHOS_FRAME_TYPE_NACK }
\* 190 = 0x00BE and 48640 = 0xBE00 put an ESC byte in the header
CodecSeqnos == {0, 1, 18, 190, 48640, 65535}
CodecChannels == {0, 4, 190}

\* a payload whose bytes 2.. read, once 0xBF has lost its low bit, as
\* ESC FRAME_END followed by the checksum of the frame cut after the first byte
Crafted(ft, sq, ch) ==
    LET r == fletcher16_add(<<ft, sq % U8, (sq \div U8) % U8, ch, 1>>, 255, 255)
        ck == fletcher16_fin(r[1], r[2])
    IN  <<1, 191, 229, ck % U8, (ck \div U8) % U8>>

CodecPayloads(ft, sq, ch) ==
    { <<>>, <<1>>, <<85>>, <<190>>, <<190, 190>>, <<1, 190, 2>>,
      Crafted(ft, sq, ch), [k \in 1..MTU |-> 255] }

\* b with bit k inverted
FlipBit(b, k) == IF (b \div (2 ^ k)) % 2 = 1 THEN b - 2 ^ k ELSE b + 2 ^ k

\* the positions of enc between the delimiters, and those of the checksum
FlipPositions(data, channel, seqno, frame_type) ==
    LET body == Len(_write_escaped(<<frame_type, seqno % U8, (seqno \div U8) % U8, channel>>))
                + Len(_write_escaped(data))
        total == Len(_send_frame(data, channel, seqno, frame_type))
    IN  (3 .. (2 + body)) \cup ((2 + body + 3) .. total)

\* frames on which bit flips are tried
FlipFrame(sq, ch) == sq \in {1, 18} /\ ch = 4

InitCodec ==
    /\ charSigned \in BOOLEAN
    /\ serial = serial_init
    /\ event = NO_EVENT
    /\ i = 0
    /\ rx = [ready |-> 0, dropped |-> 0]
    /\ LoopInit
    /\ tun_fd = NO_FD
    /\ mcu_addr_rsp_frame \in RspFrames(tun_fd)
    /\ mcu_addr_rsp_frame[2] = 0
    /\ StartedHistory(0)
    /\ wire_in = <<>>
    /\ peer = [seqno |-> 0, last |-> no_frame]
    /\ events_left = 0
    /\ \E ft \in CodecTypes, sq \in CodecSeqnos, ch \in CodecChannels :
         \E d \in CodecPayloads(ft, sq, ch) :
           LET enc == _send_frame(d, ch, sq, ft) IN
           \/ /\ tx = [frame_type |-> ft, seqno |-> sq, channel |-> ch, data |-> d,
                       flip_at |-> 0, flip_bit |-> 0]
              /\ inbuf = enc
           \/ /\ FlipFrame(sq, ch)
              /\ \E at \in FlipPositions(d, ch, sq, ft), bit \in 0..7 :
                   /\ tx = [frame_type |-> ft, seqno |-> sq, channel |-> ch, data |-> d,
                            flip_at |-> at, flip_bit |-> bit]
                   /\ inbuf = [enc EXCEPT ![at] = FlipBit(enc[at], bit)]

\* one iteration of: event = _serial_handle_byte(&serial, *ptr++)
FeedByte ==
    /\ i < Len(inbuf)
    /\ LET r == _serial_handle_byte(serial, inbuf[i + 1]) IN
         /\ serial' = r.serial
         /\ event' = r.event
         /\ rx' = [ready |-> rx.ready + (IF r.event = FRAME_READY THEN 1 ELSE 0),
                   dropped |-> rx.dropped + (IF r.event = FRAME_DROPPED THEN 1 ELSE 0)]
    /\ i' = i + 1
    /\ UNCHANGED <<inbuf, tx, loopvars, flagvars, timervars, stats, domain_sockets,
                   have_stdin, confvars, clientvars, envvars, out, histvars>>

NextCodec == FeedByte

SpecCodec == InitCodec /\ [][NextCodec]_vars


(***************************************************************************)
(* The environment: the peer at the other end of the line, and the line.   *)
(* The peer speaks the frame format of _send_frame with every 0xBE         *)
(* escaped, whatever the host's build.                                     *)
(***************************************************************************)
RECURSIVE WireEscape(_)
WireEscape(buf) ==
    IF buf = <<>> THEN <<>>
    ELSE (IF Head(buf) = RETHOS_ESC_CHAR THEN _esc_esc ELSE <<Head(buf)>>)
         \o WireEscape(Tail(buf))

WireFrame(f) ==
    LET preamble == <<f.frame_type, f.seqno % U8, (f.seqno \div U8) % U8, f.channel>>
        fl == fletcher16_add(preamble \o f.data, 255, 255)
        cksum == fletcher16_fin(fl[1], fl[2])
    IN  _start_frame \o WireEscape(preamble) \o WireEscape(f.data)
        \o _end_frame \o WireEscape(<<cksum % U8, (cksum \div U8) % U8>>)

PeerFrame(frame_type, seqno, channel, data) ==
    [frame_type |-> frame_type, seqno |-> seqno, channel |-> channel, data |-> data]

\* channels the peer sends DATA on, and what it sends
PeerChannels == {CMD_CHANNEL, 4}
PeerPayloads(seqno, channel) ==
    IF channel = CMD_CHANNEL
    THEN { <<CMD_GET_MCU_IP_ADDR>>, Crafted(RETHOS_FRAME_TYPE_DATA, seqno, channel) }
    ELSE { <<>>, <<7>> }

\* what the line does to a frame: nothing, lose it, or invert the low bit of
\* one of these bytes of it
LineFlips == {8}
Intact == <<"intact", 0>>
LineFaults == {Intact, <<"lost", 0>>} \cup {<<"flip", k>> : k \in LineFlips}

OnLine(bytes, fault) ==
    IF fault[1] = "intact" THEN bytes
    ELSE IF fault[1] = "lost" THEN <<>>
    ELSE [bytes EXCEPT ![fault[2]] = FlipBit(bytes[fault[2]], 0)]

\* the peer writes frame f; the line passes it, or does one of faults to it
Transmit(f, faults) ==
    /\ pc = "pselect"
    /\ events_left > 0
    /\ events_left' = events_left - 1
    /\ \E fault \in faults :
         /\ fault[2] <= Len(WireFrame(f))
         /\ Len(wire_in) + Len(OnLine(WireFrame(f), fault)) <= MaxWire
         /\ wire_in' = wire_in \o OnLine(WireFrame(f), fault)
    /\ out' = <<>>
    /\ UNCHANGED <<serial, event, inbuf, i, codecvars, loopvars, flagvars, timervars,
                   stats, domain_sockets, have_stdin, confvars, clientvars,
                   nsent, unacked, acked, last_sent, rexmits, delivered>>

\* a DATA frame with the peer's next sequence number
PeerSendData ==
    \E ch \in PeerChannels :
      \E d \in PeerPayloads((peer.seqno + 1) % U16, ch) :
        LET f == PeerFrame(RETHOS_FRAME_TYPE_DATA, (peer.seqno + 1) % U16, ch, d) IN
        /\ Transmit(f, LineFaults)
        /\ peer' = [seqno |-> f.seqno, last |-> f]
        /\ peer_sent' = [peer_sent EXCEPT ![Slot(ch)] = Append(@, d)]

\* the peer's own retransmission of its last DATA frame
PeerRexmit ==
    /\ peer.last # no_frame
    /\ Transmit(peer.last, LineFaults)
    /\ UNCHANGED <<peer, peer_sent>>

\* an ACK of the host's latest DATA frame, or of the one before it
PeerSendAck ==
    \E sq \in {serial.out_seqno, (serial.out_seqno + U16 - 1) % U16} :
        /\ Transmit(PeerFrame(RETHOS_FRAME_TYPE_ACK, sq, RESERVED_CHANNEL, <<>>), {Intact})
        /\ UNCHANGED <<peer, peer_sent>>

PeerSendNack ==
    /\ Transmit(PeerFrame(RETHOS_FRAME_TYPE_NACK, 0, RESERVED_CHANNEL, <<>>), {Intact})
    /\ UNCHANGED <<peer, peer_sent>>

\* a heartbeat: a frame on channel 0 that is neither ACK nor NACK
PeerSendHb ==
    /\ Transmit(PeerFrame(RETHOS_FRAME_TYPE_HB, 0, RESERVED_CHANNEL, <<>>), {Intact})
    /\ UNCHANGED <<peer, peer_sent>>

(***************************************************************************)
(* The dispatcher.                                                         *)
(***************************************************************************)
Next ==
    \/ \E timer_type \in {STATS_TIMER_TYPE, REXMIT_TIMER_TYPE, IPADDR_TIMER_TYPE} :
          timer_handler(timer_type)
    \/ pselect
    \/ HandleStats
    \/ HandleRexmit
    \/ HandleIpaddr
    \/ SerialRead
    \/ SerialByte
    \/ StdinStep
    \/ TunStep
    \/ ChannelStep
    \/ PeerSendData
    \/ PeerRexmit
    \/ PeerSendAck
    \/ PeerSendNack
    \/ PeerSendHb

Spec == Init /\ [][Next]_vars

\* the decoder holds exactly the frame that was encoded
Decoded ==
    /\ serial.frametype = tx.frame_type
    /\ serial.in_seqno = tx.seqno
    /\ serial.channel = tx.channel
    /\ serial.numbytes = Len(tx.data)
    /\ serial.frame = tx.data

RoundTrip ==
    tx.flip_at = 0 =>
        /\ i < Len(inbuf) => event = NO_EVENT
        /\ i = Len(inbuf) => event = FRAME_READY /\ Decoded

\* C1: an encoded frame fed byte by byte to _serial_handle_byte yields NO_EVENT
\* for every byte but the last and FRAME_READY on the last, with the decoded
\* frame type, seqno, channel, length and payload equal to the encoded ones.
C1_RoundTrip == RoundTrip

\* Where plain char is unsigned the round trip of C1 holds for every frame tried.
RoundTripUnsignedChar == ~charSigned => RoundTrip

(***************************************************************************)
(* The link engine and the dispatcher.                                     *)
(***************************************************************************)
\* C2: at most one DATA frame is sent and not yet acknowledged.
C2_StopAndWait == Cardinality(unacked) <= 1

\* C3: no sent DATA frame is abandoned while still unacknowledged: every
\* sequence number sent and not acknowledged is the one the retransmit slot
\* holds, unacked, so that ticks and NACKs keep retransmitting it.
C3_NoAbandon == \A sq \in unacked : sq = serial.rexmit_seqno /\ ~serial.rexmit_acked

RECURSIVE IsSubseq(_, _)
IsSubseq(a, b) ==
    IF a = <<>> THEN TRUE
    ELSE IF b = <<>> THEN FALSE
    ELSE IF Head(a) = Head(b) THEN IsSubseq(Tail(a), Tail(b))
    ELSE IsSubseq(a, Tail(b))

\* C4: on every channel >= 1 the payloads handed to the channel's consumer are
\* a subsequence of the payloads the peer sent on it, in send order.
C4_InOrder ==
    \A c \in Slots \ {RESERVED_CHANNEL} : IsSubseq(delivered[c], peer_sent[c])

\* the step of the byte loop in which _serial_handle_byte returns FRAME_READY
FrameReadyStep == pc = "serial_loop" /\ event' = FRAME_READY

\* the fields of serial_t the link engine owns
LinkState(s) ==
    << s.out_seqno, s.rexmit_seqno, s.rexmit_channel, s.rexmit_numbytes, s.rexmit_frame,
       s.rexmit_acked, s.received_data_frame, s.last_rcvd_seqno >>

DuplicateSuppressed ==
    (FrameReadyStep /\ serial'.channel >= 1) =>
        /\ out' # <<>> /\ out'[1] = rethos_send_ack_frame(serial'.in_seqno)
        /\ (serial.received_data_frame /\ serial'.in_seqno = serial.last_rcvd_seqno) =>
              /\ out' = <<rethos_send_ack_frame(serial'.in_seqno)>>
              /\ delivered' = delivered
              /\ serial'.last_rcvd_seqno = serial.last_rcvd_seqno
              /\ serial'.received_data_frame = serial.received_data_frame
              /\ stats'.global.lost_frames = stats.global.lost_frames

\* C5: a valid frame on a channel >= 1 is answered with an ACK of its seqno;
\* when its seqno equals that of the previously accepted frame, the ACK is all
\* the step writes: nothing is delivered, and last_rcvd_seqno,
\* received_data_frame and lost_frames keep their values.
C5_DuplicateSuppression == [][DuplicateSuppressed]_vars

\* the peer's DATA frame arrived twice: two ACKs, one delivery
C5_Witness ==
    /\ event = FRAME_READY
    /\ pc = "stdin"
    /\ stats.channel[CMD_CHANNEL].serial_received = 2
    /\ Len(peer_sent[CMD_CHANNEL]) = 1
    /\ Len(delivered[CMD_CHANNEL]) = 1
    /\ out = <<rethos_send_ack_frame(serial.last_rcvd_seqno)>>

AckHandled ==
    (FrameReadyStep /\ serial'.channel = RESERVED_CHANNEL
                    /\ serial'.frametype = RETHOS_FRAME_TYPE_ACK) =>
        /\ out' = <<>>
        /\ IF serial'.in_seqno = serial.rexmit_seqno
           THEN /\ serial'.rexmit_acked
                /\ ~rexmit_armed'
                /\ LinkState(serial') = LinkState([serial EXCEPT !.rexmit_acked = TRUE])
           ELSE /\ LinkState(serial') = LinkState(serial)
                /\ rexmit_armed' = rexmit_armed
                /\ rexmit_pending' = rexmit_pending

\* C6: an ACK on channel 0 whose seqno equals rexmit_seqno sets rexmit_acked
\* and cancels the REXMIT timer; an ACK with another seqno changes neither the
\* link state nor the timer; in both cases no frame is emitted.
C6_AckHandling == [][AckHandled]_vars

\* the ACK of the DATA frame just sent was accepted
C6_Witness ==
    /\ event = FRAME_READY
    /\ pc = "stdin"
    /\ serial.channel = RESERVED_CHANNEL
    /\ serial.frametype = RETHOS_FRAME_TYPE_ACK
    /\ nsent = 1
    /\ serial.in_seqno = serial.rexmit_seqno
    /\ serial.rexmit_acked
    /\ ~rexmit_armed
    /\ acked = {1}

SeqnoStep ==
    IF nsent' # nsent
    THEN /\ nsent' = nsent + 1
         /\ serial'.out_seqno = (serial.out_seqno + 1) % U16
         /\ serial'.rexmit_seqno = serial'.out_seqno
         /\ ~serial'.rexmit_acked
         /\ \E k \in 1..Len(out') :
               /\ out'[k].via = "data"
               /\ out'[k].frame_type = RETHOS_FRAME_TYPE_DATA
               /\ out'[k].seqno = serial'.out_seqno
    ELSE /\ serial'.out_seqno = serial.out_seqno
         /\ \A k \in 1..Len(out') : out'[k].via # "data"

\* C7: out_seqno is the number of rethos_send_data_frame calls modulo 2^16: it
\* starts at 0, each call adds one (65535 is followed by 0), stores the new
\* value as rexmit_seqno with rexmit_acked false and sends it in the DATA
\* frame; no other step changes out_seqno.
C7_OutSeqno == [](serial.out_seqno = nsent % U16) /\ [][SeqnoStep]_vars

\* the send after seqno 65535
C7_Witness ==
    /\ nsent = U16
    /\ serial.out_seqno = 0
    /\ serial.rexmit_seqno = 0
    /\ ~serial.rexmit_acked
    /\ last_sent.seqno = 0

\* the frame of the last rethos_send_data_frame call, as _send_frame writes it
LastSentFrame ==
    Frame("rexmit", last_sent.data, last_sent.channel, last_sent.seqno,
          RETHOS_FRAME_TYPE_DATA)

RexmitStep ==
    /\ (pc = "rexmit" /\ rexmit_fired = 1 /\ ~serial.rexmit_acked) =>
          /\ out' = <<LastSentFrame>>
          /\ Len(out'[1].data) = serial.rexmit_numbytes
    /\ \A k \in 1..Len(out') :
          out'[k].via = "rexmit" => out'[k].seqno \notin acked /\ ~serial.rexmit_acked

\* C8: a REXMIT tick handled while the slot is unacked emits the frame last
\* sent by rethos_send_data_frame, unchanged; no retransmission is emitted of
\* a frame whose ACK was accepted, or while the slot is acked.
C8_Retransmit == [][RexmitStep]_vars

\* a REXMIT signal queued before the ACK cancelled the timer was handled after
\* it, and nothing was retransmitted
C8_Witness ==
    /\ pc = "ipaddr"
    /\ activity = -1
    /\ events_left = 0
    /\ nsent = 1
    /\ acked = {1}
    /\ serial.rexmit_acked
    /\ rexmit_fired = 0
    /\ ~rexmit_pending
    /\ out = <<>>

NackHandled ==
    (FrameReadyStep /\ serial'.channel = RESERVED_CHANNEL
                    /\ serial'.frametype = RETHOS_FRAME_TYPE_NACK) =>
        /\ out' = IF ~serial.rexmit_acked THEN <<rethos_rexmit_data_frame(serial)>>
                  ELSE IF serial.received_data_frame
                  THEN <<rethos_send_ack_frame(serial.last_rcvd_seqno)>>
                  ELSE <<>>
        /\ \A k \in 1..Len(out') : out'[k].frame_type # RETHOS_FRAME_TYPE_NACK
        /\ LinkState(serial') = LinkState(serial)
        /\ rexmit_armed' = rexmit_armed
        /\ rexmit_pending' = rexmit_pending

\* C9: a NACK on channel 0 is answered with exactly one retransmission of the
\* stored frame while the slot is unacked, with exactly one ACK of
\* last_rcvd_seqno when the slot is acked and a DATA frame was accepted
\* before, and with nothing otherwise; out_seqno and the timer keep their
\* state and no NACK is emitted.
C9_NackHandling == [][NackHandled]_vars

\* a NACK arrived while the DATA frame just sent was unacked
C9_Witness ==
    /\ event = FRAME_READY
    /\ pc = "stdin"
    /\ serial.channel = RESERVED_CHANNEL
    /\ serial.frametype = RETHOS_FRAME_TYPE_NACK
    /\ nsent = 1
    /\ ~serial.rexmit_acked
    /\ out = <<rethos_rexmit_data_frame(serial)>>

\* C10: after a single bit flip between the delimiters or in the checksum the
\* decoder emits FRAME_DROPPED for the frame and never FRAME_READY.  Stated for
\* builds with unsigned char only, where the codec works at all (see C1).
C10_ChecksumRejection ==
    (~charSigned /\ tx.flip_at # 0 /\ i = Len(inbuf)) =>
        (rx.dropped >= 1 /\ rx.ready = 0)

\* bytes the line delivered before the frame: nothing, stray bytes, a lone
\* ESC, a frame cut in its header, in its payload, after an escape, after its
\* end delimiter and inside its checksum, a complete frame, a corrupt one
GarbagePrefixes ==
    { <<>>, <<1, 2, 3>>, <<190>>, <<190, 85>>, <<190, 239, 1, 0>>,
      <<190, 239, 1, 0, 0, 4, 7>>, <<190, 239, 1, 0, 0, 4, 7, 190>>,
      <<190, 239, 1, 0, 0, 4, 190, 229>>, <<190, 239, 1, 0, 0, 4, 190, 229, 5>>,
      <<190, 239, 4, 0, 0, 0, 190, 229, 4, 9>>, <<190, 239, 1, 0, 190, 1>> }

InitResync ==
    /\ charSigned \in BOOLEAN
    /\ serial = serial_init
    /\ event = NO_EVENT
    /\ i = 0
    /\ rx = [ready |-> 0, dropped |-> 0]
    /\ LoopInit
    /\ tun_fd = NO_FD
    /\ mcu_addr_rsp_frame \in RspFrames(tun_fd)
    /\ mcu_addr_rsp_frame[2] = 0
    /\ StartedHistory(0)
    /\ wire_in = <<>>
    /\ peer = [seqno |-> 0, last |-> no_frame]
    /\ events_left = 0
    /\ \E ft \in CodecTypes, sq \in {1, 190}, ch \in {0, 4}, g \in GarbagePrefixes :
         \E d \in {<<>>, <<1>>, <<190>>, <<1, 190, 2>>} :
           /\ tx = [frame_type |-> ft, seqno |-> sq, channel |-> ch, data |-> d,
                    flip_at |-> 0, flip_bit |-> 0, garbage |-> Len(g)]
           /\ inbuf = g \o _send_frame(d, ch, sq, ft)

\* the garbage, then the frame, fed byte by byte from the initial decoder state
SpecResync == InitResync /\ [][NextCodec]_vars

Resynchronized ==
    /\ (tx.garbage < i /\ i < Len(inbuf)) => event = NO_EVENT
    /\ i = Len(inbuf) => event = FRAME_READY /\ Decoded

\* C11: whatever bytes came before it, a complete valid frame makes the
\* decoder return NO_EVENT on each of its bytes but the last and FRAME_READY on
\* the last, with the frame's type, seqno, channel and payload.
C11_Resync == Resynchronized

\* Where plain char is unsigned the decoder resynchronizes as C11 says.
ResyncUnsignedChar == ~charSigned => Resynchronized

NotDuplicateStep ==
    /\ FrameReadyStep
    /\ serial'.channel >= 1
    /\ ~(serial.received_data_frame /\ serial'.in_seqno = serial.last_rcvd_seqno)

LossCounted ==
    NotDuplicateStep =>
        stats'.global.lost_frames - stats.global.lost_frames
            = (serial'.in_seqno - serial.last_rcvd_seqno - 1) % U16

\* C12: when a frame with sequence number s on a channel >= 1 is accepted as not
\* a duplicate and the previously accepted number is s0 (0 before any frame),
\* lost_frames grows by exactly (s - s0 - 1) mod 2^16.
C12_LostFrames == [][LossCounted]_vars

CountersMonotone ==
    /\ \A k \in DOMAIN stats.global : ~U64Less(stats'.global[k], stats.global[k])
    /\ \A c \in Slots : \A k \in DOMAIN stats.channel[c] :
          ~U64Less(stats'.channel[c][k], stats.channel[c][k])

\* C13: no step makes a global or per-channel statistics counter smaller.
C13_Monotone == [][CountersMonotone]_vars

Listening(c) == domain_sockets[c].server_socket # NO_FD
Connected(c) == domain_sockets[c].client_socket # NO_FD

\* every slot is either listening or connected, never both and never neither,
\* and the wait watches the one descriptor the slot holds
Exclusive ==
    \A c \in Slots :
        /\ Listening(c) # Connected(c)
        /\ Connected(c) => ServerFd(c) \notin Watched /\ ClientFd(c) \in Watched
        /\ Listening(c) => ServerFd(c) \in Watched /\ ClientFd(c) \notin Watched

\* a slot changes only by accepting a connection on its listening socket, which
\* closes that socket, or by losing its client, which makes it listen again
SlotStep ==
    \A c \in Slots :
        domain_sockets'[c] # domain_sockets[c] =>
            \/ /\ Listening(c) /\ ServerFd(c) \in readfds
               /\ domain_sockets'[c] = [server_socket |-> NO_FD,
                                        client_socket |-> ClientFd(c)]
            \/ /\ Connected(c) /\ ClientFd(c) \in readfds
               /\ domain_sockets'[c] = [server_socket |-> ServerFd(c),
                                        client_socket |-> NO_FD]

\* C14: at every wait each channel slot is exactly one of listening and
\* connected; accepting a client closes the listening socket, so no second
\* client can connect, and the slot listens again once the client is gone.
C14_Exclusivity == []Exclusive /\ [][SlotStep]_vars

\* a client connected on channel 4 and closed its socket: the slot listens again
C14_Witness ==
    /\ pc = "pselect"
    /\ client_read.channel = 4
    /\ client_read.status = READ_EOF
    /\ Listening(4) /\ ~Connected(4)

\* C15: every frame written on channel 0 is an ACK or a NACK without payload,
\* and once a DATA frame has been stored for retransmission the retransmit slot
\* never holds channel 0, whatever a client connected on channel 0 sends.
C15_ReservedChannel ==
    /\ \A k \in 1..Len(out) :
          (IsFrame(out[k]) /\ out[k].channel = RESERVED_CHANNEL) =>
              /\ out[k].frame_type \in {RETHOS_FRAME_TYPE_ACK, RETHOS_FRAME_TYPE_NACK}
              /\ out[k].data = <<>>
    /\ nsent > 0 => serial.rexmit_channel # RESERVED_CHANNEL

\* the pass of the channel loop that calls read_message on a connected client
ClientReadStep ==
    /\ pc = "chan"
    /\ ReadyChannels # {}
    /\ Connected(NextChannel)

\* the stream ends before the message it announces is complete
Incomplete(st) ==
    /\ st.eof
    /\ \/ Len(st.bytes) < 4
       \/ Len(st.bytes) < 4 + ntohl(st.bytes)

ClientErrorHandled ==
    (ClientReadStep /\ Incomplete(client_read'.stream)) =>
        /\ domain_sockets'[NextChannel] = channel_listen(NextChannel)
        /\ out' = <<>>
        /\ serial'.out_seqno = serial.out_seqno

\* C16: when reading a client's message ends at end of file or short, in the
\* length header or in the body, the client's descriptor is closed and the slot
\* listens again, no DATA frame is sent and no sequence number is used.
C16_ClientError == [][ClientErrorHandled]_vars

HeaderErrorHandled ==
    (ClientReadStep /\ client_read'.stream.eof /\ Len(client_read'.stream.bytes) < 4) =>
        /\ domain_sockets'[NextChannel] = channel_listen(NextChannel)
        /\ out' = <<>>
        /\ serial'.out_seqno = serial.out_seqno

\* the part of C16 about the length header: end of file, or fewer than four
\* bytes and then end of file, closes the client and sends nothing
ClientHeaderError == [][HeaderErrorHandled]_vars

\* the stream starts with a whole message longer than the buffer
TooLong(st) ==
    /\ Len(st.bytes) >= 4
    /\ ntohl(st.bytes) > MTU
    /\ Len(st.bytes) >= 4 + ntohl(st.bytes)

OverflowDiscarded ==
    (ClientReadStep /\ TooLong(client_read'.stream)) =>
        LET st == client_read'.stream IN
        /\ client_read'.status = READ_OVERFLOW
        /\ client_read'.consumed = 4 + ntohl(st.bytes)
        /\ client_in'[NextChannel] = StreamAfter(st, 4 + ntohl(st.bytes))
        /\ out' = <<>>
        /\ LinkState(serial') = LinkState(serial)
        /\ stats' = stats
        /\ domain_sockets' = domain_sockets

\* C17: a client message whose declared length exceeds MTU is discarded whole:
\* the length and all declared bytes are consumed, so that the stream stands at
\* the next message's length; no frame is sent, out_seqno, the retransmit slot
\* and the statistics keep their values, and the slot stays connected.
C17_ClientOverflow == [][OverflowDiscarded]_vars

\* a client on channel 4 wrote a message of MTU + 1 bytes and a second one: after
\* the read, the slot is connected and the stream holds the second message
C17_Witness ==
    /\ client_read.channel = 4
    /\ client_read.status = READ_OVERFLOW
    /\ client_read.message_size = MTU + 1
    /\ client_in[4] = Stream(htonl(1) \o <<7>>, FALSE)
    /\ Connected(4)
    /\ out = <<>>

(***************************************************************************)
(* One corrupt frame on the line, fed to the decoder from WAIT_FRAMESTART. *)
(***************************************************************************)
\* payloads of the frames that get corrupted: with an escaped byte, and one
\* byte longer than the receive buffer
CorruptPayloads == { <<190>>, <<1, 190, 2>>, [k \in 1..MTU + 1 |-> 255] }

\* the three kinds of corruption: an escape followed by a byte that is none of
\* LITERAL_ESC, FRAME_START, FRAME_END; more than MTU payload bytes; one bit of
\* the low byte of the checksum inverted
Corrupted(d, sq) ==
    LET enc == _send_frame(d, 4, sq, RETHOS_FRAME_TYPE_DATA)
        esc == CHOOSE k \in 7..Len(enc) : enc[k] = RETHOS_ESC_CHAR
        low == Len(enc) - 1
    IN  IF Len(d) > MTU THEN { [fault |-> "runaway", bytes |-> enc] }
        ELSE { [fault |-> "escape", bytes |-> [enc EXCEPT ![esc + 1] = 0]] }
             \cup { [fault |-> "checksum",
                     bytes |-> [enc EXCEPT ![low] = FlipBit(enc[low], bit)]] :
                       bit \in 0..7 }

InitCorrupt ==
    /\ charSigned = FALSE
    /\ serial = serial_init
    /\ event = NO_EVENT
    /\ i = 0
    /\ rx = [ready |-> 0, dropped |-> 0]
    /\ LoopInit
    /\ tun_fd = NO_FD
    /\ mcu_addr_rsp_frame \in RspFrames(tun_fd)
    /\ mcu_addr_rsp_frame[2] = 0
    /\ StartedHistory(0)
    /\ wire_in = <<>>
    /\ peer = [seqno |-> 0, last |-> no_frame]
    /\ events_left = 0
    /\ \E d \in CorruptPayloads, sq \in {1, 18} :
         \E f \in Corrupted(d, sq) :
           /\ tx = [frame_type |-> RETHOS_FRAME_TYPE_DATA, seqno |-> sq, channel |-> 4,
                    data |-> d, fault |-> f.fault]
           /\ inbuf = f.bytes

SpecCorrupt == InitCorrupt /\ [][NextCodec]_vars

\* C18: a single corrupt frame (bad escape sequence, payload longer than MTU,
\* or one bit flipped in the low byte of the checksum) causes exactly one
\* FRAME_DROPPED event and no FRAME_READY, and leaves the decoder in
\* WAIT_FRAMESTART.  Stated for builds with unsigned char (see C1).
C18_Corruption ==
    i = Len(inbuf) =>
        /\ rx.dropped = 1
        /\ rx.ready = 0
        /\ serial.state = WAIT_FRAMESTART

\* the same without the count: the frame is dropped at least once, never
\* accepted, and the decoder ends in WAIT_FRAMESTART
CorruptionDropped ==
    i = Len(inbuf) =>
        /\ rx.dropped >= 1
        /\ rx.ready = 0
        /\ serial.state = WAIT_FRAMESTART

NackSent ==
    (pc = "serial_loop" /\ event' = FRAME_DROPPED) =>
        /\ out' = <<rethos_send_nack_frame>>
        /\ rethos_send_nack_frame.frame_type = RETHOS_FRAME_TYPE_NACK
        /\ rethos_send_nack_frame.channel = RESERVED_CHANNEL
        /\ rethos_send_nack_frame.seqno = 0
        /\ rethos_send_nack_frame.data = <<>>
        /\ stats'.global.bad_frames = stats.global.bad_frames + 1
        /\ stats'.global.lost_frames = stats.global.lost_frames + 1

\* every FRAME_DROPPED event is answered by one NACK frame (type NACK, channel
\* 0, seqno 0, no payload) and counted once in bad_frames and in lost_frames
NackPerDrop == [][NackSent]_vars

\* the reply the command channel owes to opcode 0x01: a DATA frame on channel 2
\* with the next sequence number, carrying 0x11 and the 16 address bytes
AddressReply ==
    Frame("data", <<RSP_GET_MCU_IP_ADDR>> \o McuAddr, CMD_CHANNEL,
          (serial.out_seqno + 1) % U16, RETHOS_FRAME_TYPE_DATA)

\* the frames among what a step wrote, in order
FramesOf(o) == SelectSeq(o, IsFrame)

CommandAnswered ==
    (NotDuplicateStep /\ serial'.channel = CMD_CHANNEL /\ serial'.numbytes # 0
       /\ tun_fd # NO_FD) =>
        IF serial'.frame[1] = CMD_GET_MCU_IP_ADDR
        THEN FramesOf(out') = <<rethos_send_ack_frame(serial'.in_seqno), AddressReply>>
        ELSE FramesOf(out') = <<rethos_send_ack_frame(serial'.in_seqno)>>

\* C19: with an address configured, a non-duplicate DATA frame on channel 2
\* whose first payload byte is 0x01 is answered by an ACK of its seqno and then
\* by one DATA frame on channel 2 with a fresh sequence number and the payload
\* 0x11 followed by the 16 address bytes; any other opcode by the ACK only.
C19_Command == [][CommandAnswered]_vars

\* the byte loop is left only by the step that handles the last byte read
LoopLeftAtEnd ==
    (pc = "serial_loop" /\ pc' # "serial_loop") => i + 1 = Len(inbuf)

\* C20: every byte returned by a read of the serial descriptor is fed to
\* _serial_handle_byte, in order: the byte loop ends only after the last byte
\* of the buffer, whatever frames complete inside it.
C20_AllBytesFed == [][LoopLeftAtEnd]_vars

\* what a step hands to a consumer: standard output, the tunnel, a client
IsDelivery(e) == e.via \in {"stdout", "tun", "client"}

AckThenDeliver ==
    /\ (FrameReadyStep /\ serial'.channel >= 1) =>
          /\ out' # <<>>
          /\ out'[1] = rethos_send_ack_frame(serial'.in_seqno)
          /\ \A k \in 2..Len(out') :
                \/ IsDelivery(out'[k]) /\ out'[k].data = serial'.frame
                                      /\ out'[k].channel = serial'.channel
                \/ out'[k].via = "data"
    /\ ((\E k \in 1..Len(out') : IsDelivery(out'[k])) \/ delivered' # delivered) =>
          /\ FrameReadyStep /\ serial'.channel >= 1
          /\ delivered' = [delivered EXCEPT ![Slot(serial'.channel)] =
                                                Append(@, serial'.frame)]

\* C21: the step that completes a valid frame on a channel >= 1 writes the ACK
\* of its seqno first, then the deliveries of its payload and a reply DATA
\* frame; payloads are handed to consumers in that step only, so before the
\* next serial byte reaches the state machine.
C21_AckFirst == [][AckThenDeliver]_vars

\* the command 0x01 of the peer was acknowledged, then answered
C21_Witness ==
    /\ event = FRAME_READY
    /\ serial.channel = CMD_CHANNEL
    /\ Len(out) = 2
    /\ out[1] = rethos_send_ack_frame(serial.in_seqno)
    /\ out[2].via = "data"
    /\ Len(delivered[CMD_CHANNEL]) = 1

(***************************************************************************)
(* One frame of the peer in the read buffer, with at most one client       *)
(* connected: the state after an accept in an earlier pass of the loop and *)
(* a read of the serial descriptor.                                        *)
(***************************************************************************)
RouteChannels == {STDIN_CHANNEL, CMD_CHANNEL, TUNTAP_CHANNEL, 4, 7}
RoutePayloads == { <<>>, <<7>>, <<CMD_GET_MCU_IP_ADDR>>, <<2, 190>> }
\* the channel with a connected client; NUM_CHANNELS for none
RouteClients == {STDIN_CHANNEL, CMD_CHANNEL, TUNTAP_CHANNEL, 4, NUM_CHANNELS}

InitRoute ==
    /\ charSigned \in BOOLEAN
    /\ tun_fd \in {NO_FD, TUN_FD}
    /\ mcu_addr_rsp_frame \in RspFrames(tun_fd)
    /\ mcu_addr_rsp_frame[2] = 0
    /\ serial = serial_init
    /\ StartedHistory(0)
    /\ event = NO_EVENT
    /\ pc = "serial_loop"
    /\ activity = 1
    /\ readfds = {serial_fd}
    /\ interrupted = FALSE
    /\ stats_fired = 0
    /\ rexmit_fired = 0
    /\ ipaddr_fired = 0
    /\ rexmit_pending = FALSE
    /\ stats = stats_init
    /\ \E cc \in RouteClients :
         domain_sockets = [c \in Slots |-> IF c = cc THEN accept_client(c)
                                           ELSE channel_listen(c)]
    /\ have_stdin = TRUE
    /\ out = <<>>
    /\ client_in = [c \in Slots |-> no_stream]
    /\ client_read = no_read
    /\ delivered = [c \in Slots |-> <<>>]
    /\ wire_in = <<>>
    /\ events_left = 0
    /\ rx = [ready |-> 0, dropped |-> 0]
    /\ i = 0
    /\ \E ft \in CodecTypes, ch \in RouteChannels, d \in RoutePayloads :
         LET f == PeerFrame(ft, 1, ch, d) IN
         /\ tx = f
         /\ inbuf = WireFrame(f)
         /\ peer = [seqno |-> 1, last |-> IF ft = RETHOS_FRAME_TYPE_DATA THEN f
                                          ELSE no_frame]
         /\ peer_sent = [c \in Slots |-> IF c = Slot(ch) /\ ft = RETHOS_FRAME_TYPE_DATA
                                          THEN <<d>> ELSE <<>>]

NextRoute == SerialByte

SpecRoute == InitRoute /\ [][NextRoute]_vars

Routed ==
    (NotDuplicateStep /\ serial'.numbytes # 0) =>
        LET c == serial'.channel
            sl == Slot(c)
            connected == Connected(sl)
            builtin == IF c = STDIN_CHANNEL
                       THEN <<Written("stdout", c, serial'.frame)>>
                       ELSE IF c = TUNTAP_CHANNEL /\ tun_fd # NO_FD
                       THEN <<Written("tun", c, serial'.frame)>>
                       ELSE <<>>
            replies == SelectSeq(out', LAMBDA e : e.via = "data")
        IN  /\ SelectSeq(out', IsDelivery)
                  = builtin \o (IF connected THEN <<write_message(c, serial'.frame)>>
                                ELSE <<>>)
            /\ Len(replies) = IF c = CMD_CHANNEL /\ serial'.frame[1] = CMD_GET_MCU_IP_ADDR
                              THEN 1 ELSE 0
            /\ stats'.channel[sl].domain_forwarded
                  = stats.channel[sl].domain_forwarded + (IF connected THEN 1 ELSE 0)
            /\ stats'.global.domain_forwarded
                  = stats.global.domain_forwarded + (IF connected THEN 1 ELSE 0)
            /\ stats'.channel[sl].drop_notconnected
                  = stats.channel[sl].drop_notconnected + (IF connected THEN 0 ELSE 1)
            /\ stats'.global.drop_notconnected
                  = stats.global.drop_notconnected
                    + (IF ~connected /\ c # STDIN_CHANNEL /\ c # TUNTAP_CHANNEL
                       THEN 1 ELSE 0)

\* C22: an accepted, non-empty frame on channel c >= 1 goes to the built-in
\* consumer of c (1: standard output, 3: the tunnel if there is one, 2: the
\* command parser) whether or not a client is connected; then a connected
\* client gets the payload length-prefixed and both domain_forwarded counters
\* grow by 1, otherwise the channel's drop_notconnected grows by 1 and the
\* global one grows by 1 exactly when c is neither 1 nor 3.
C22_Delivery == [][Routed]_vars

\* a frame on channel 1 with a client connected on channel 1: standard output
\* first, then the client
C22_Witness ==
    /\ event = FRAME_READY
    /\ serial.channel = STDIN_CHANNEL
    /\ Connected(STDIN_CHANNEL)
    /\ Len(out) = 3
    /\ out[2].via = "stdout"
    /\ out[3] = write_message(STDIN_CHANNEL, serial.frame)
    /\ stats.global.domain_forwarded = 1
    /\ stats.global.drop_notconnected = 0

\* the signal handler runs for the REXMIT timer
RexmitExpiry == pc = "pselect" /\ rexmit_fired' = 1 /\ interrupted' /\ stats_fired' = stats_fired
                /\ ipaddr_fired' = ipaddr_fired

\* the REXMIT tick is handled with the slot unacked
TimeoutStep == pc = "rexmit" /\ rexmit_fired = 1 /\ ~serial.rexmit_acked

\* C23 as stated: the timer is one-shot, so that one DATA send is followed by
\* at most one timeout retransmission of the stored frame.
C23_OneShot == rexmits <= 1

Periodic ==
    /\ RexmitExpiry => rexmit_armed' = rexmit_armed
    /\ TimeoutStep => /\ out' = <<rethos_rexmit_data_frame(serial)>>
                      /\ rexmit_armed' = rexmit_armed
                      /\ serial' = serial
    /\ rexmit_armed' # rexmit_armed =>
          \/ rexmit_armed' /\ nsent' = nsent + 1
          \/ /\ ~rexmit_armed'
             /\ FrameReadyStep
             /\ serial'.channel = RESERVED_CHANNEL
             /\ serial'.frametype = RETHOS_FRAME_TYPE_ACK
             /\ serial'.in_seqno = serial.rexmit_seqno

\* C23, amended: the REXMIT timer is periodic.  An expiry leaves it armed; it
\* is armed by a DATA send and disarmed only by the ACK that matches the
\* retransmit slot; every handled tick with the slot unacked retransmits the
\* stored frame, so without an ACK the frame is retransmitted again and again.
C23_Periodic == [][Periodic]_vars

\* the second timeout retransmission of the same frame
C23_Witness ==
    /\ pc = "ipaddr"
    /\ rexmits = 2
    /\ rexmit_armed
    /\ out = <<rethos_rexmit_data_frame(serial)>>

\* C24: the readiness wait is the only place where the dispatcher suspends: it
\* is never held inside read_message by a client that sent part of a message
\* and then stalls without closing, so it always comes back to the wait.
C24_OnlyWaitSuspends == pc # "blocked"

\* the decoder after the bytes of buf, fed one by one to a decoder in state s
RECURSIVE DecodeFrom(_, _)
DecodeFrom(r, buf) ==
    IF buf = <<>> THEN r
    ELSE CHOOSE x \in { DecodeFrom(n, Tail(buf)) :
                          n \in {_serial_handle_byte(r.serial, Head(buf))} } : TRUE

\* what a decoder that was idle when the frame began has made of its first
\* bytes, up to the byte the loop stands at
FromIdle ==
    DecodeFrom([serial |-> serial_init, event |-> NO_EVENT],
               SubSeq(inbuf, tx.garbage + 1, i))

\* the bytes before the frame left the decoder inside a frame
MidFrame ==
    DecodeFrom([serial |-> serial_init, event |-> NO_EVENT],
               SubSeq(inbuf, 1, tx.garbage)).serial.state # WAIT_FRAMESTART

\* the byte fed by this step completes ESC FRAME_START inside a frame
UnexpectedStart ==
    /\ i' = i + 1
    /\ i >= 1
    /\ inbuf[i] = RETHOS_ESC_CHAR
    /\ inbuf[i + 1] = RETHOS_FRAME_START
    /\ serial.state # WAIT_FRAMESTART

StartAbandons ==
    UnexpectedStart =>
        /\ event' = NO_EVENT
        /\ rx' = rx
        /\ serial'.sum1 = 255
        /\ serial'.sum2 = 255
        /\ serial'.state = WAIT_FRAMETYPE

EventLeavesIdle ==
    (i' = i + 1 /\ event' \in {FRAME_READY, FRAME_DROPPED}) =>
        (serial'.state = WAIT_FRAMESTART /\ ~serial'.in_escape)

AsIfIdle ==
    i >= tx.garbage + 2 =>
        \A idle \in {FromIdle} :
            /\ event = idle.event
            /\ serial.state = idle.serial.state
            /\ serial.in_escape = idle.serial.in_escape
            /\ i = Len(inbuf) =>
                 /\ serial.frametype = idle.serial.frametype
                 /\ serial.in_seqno = idle.serial.in_seqno
                 /\ serial.channel = idle.serial.channel
                 /\ serial.numbytes = idle.serial.numbytes
                 /\ serial.frame = idle.serial.frame
                 /\ serial.checksum = idle.serial.checksum

\* C25: ESC FRAME_START received in a state other than WAIT_FRAMESTART raises
\* no event, resets the checksum sums to 0xFF/0xFF and sets WAIT_FRAMETYPE; the
\* frame that follows is decoded as by a decoder that was idle when it began;
\* every FRAME_READY or FRAME_DROPPED leaves WAIT_FRAMESTART with in_escape
\* false.
C25_UnexpectedStart == [][StartAbandons /\ EventLeavesIdle /\ AsIfIdle']_vars

\* a frame that arrived while another was in progress has been decoded
C25_Witness ==
    /\ MidFrame
    /\ i = Len(inbuf)
    /\ event = FRAME_READY
    /\ Decoded
    /\ tx.data = <<1, 190, 2>>

\* a valid frame of another type than DATA on a channel >= 1 is neither
\* acknowledged nor delivered
OnlyDataRouted ==
    (FrameReadyStep /\ serial'.channel >= 1
                    /\ serial'.frametype # RETHOS_FRAME_TYPE_DATA) =>
        /\ out' = <<>>
        /\ delivered' = delivered

\* C26: only received frames of type DATA are acknowledged and routed: a valid
\* ACK, NACK, HB or HB_REPLY frame on a channel >= 1 is not answered with an ACK
\* and its payload reaches no client and no built-in consumer.
C26_TypeClassified == [][OnlyDataRouted]_vars

\* the fields of serial_t a send of DATA writes
SendState(s) ==
    << s.out_seqno, s.rexmit_seqno, s.rexmit_channel, s.rexmit_numbytes, s.rexmit_frame,
       s.rexmit_acked >>

IsControl(e) == e.via \in {"ack", "nack"}

\* the step wrote an ACK or a NACK and sent no DATA frame
ControlSent ==
    /\ \E k \in 1..Len(out') : IsControl(out'[k])
    /\ \A k \in 1..Len(out') : out'[k].via # "data"

ControlShape(e) ==
    /\ e.channel = RESERVED_CHANNEL
    /\ e.data = <<>>
    /\ e.via = "ack" =>
          /\ e.frame_type = RETHOS_FRAME_TYPE_ACK
          /\ e.seqno = IF serial'.channel = RESERVED_CHANNEL
                       THEN serial.last_rcvd_seqno ELSE serial'.in_seqno
    /\ e.via = "nack" => (e.frame_type = RETHOS_FRAME_TYPE_NACK /\ e.seqno = 0)
    /\ e.bytes = _send_frame(<<>>, RESERVED_CHANNEL, e.seqno, e.frame_type)

ControlHarmless ==
    /\ Len(SelectSeq(out', IsControl)) <= 1
    /\ \A k \in 1..Len(out') : IsControl(out'[k]) => ControlShape(out'[k])
    /\ ControlSent =>
          /\ SendState(serial') = SendState(serial)
          /\ rexmit_armed' = rexmit_armed

\* C27: a step that sends an ACK or a NACK writes one frame with no payload on
\* channel 0 (ACK with the acknowledged seqno, NACK with seqno 0) and leaves
\* out_seqno, the retransmit slot, rexmit_acked and the arming of the REXMIT
\* timer as they were.
C27_ControlHarmless == [][ControlHarmless]_vars

\* a NACK was sent while a DATA frame was waiting for its ACK
C27_Witness ==
    /\ event = FRAME_DROPPED
    /\ out = <<rethos_send_nack_frame>>
    /\ ~serial.rexmit_acked
    /\ rexmit_armed
    /\ serial.out_seqno = serial.rexmit_seqno
    /\ nsent >= 1

\* where the loop stands between the return of pselect and the first descriptor
FlagPoints == {"stats", "rexmit", "ipaddr"}

\* a flag is set only by timer_handler, which runs only inside pselect
SetInWait ==
    (\/ stats_fired' = 1 /\ stats_fired = 0
     \/ rexmit_fired' = 1 /\ rexmit_fired = 0
     \/ ipaddr_fired' = 1 /\ ipaddr_fired = 0) =>
        (pc = "pselect" /\ pc' = "pselect" /\ interrupted')

\* a wakeup goes through the three flags in the order STATS, REXMIT, IPADDR;
\* each one that is set is cleared and its action done, each one that is not
\* set has no action
HandledInOrder ==
    /\ (pc = "pselect" /\ pc' # "pselect") =>
          (pc' = "stats" /\ out' = <<>> /\ flagvars' = flagvars
           /\ activity' = (IF interrupted THEN -1 ELSE Cardinality(readfds')))
    /\ pc = "stats" =>
          /\ pc' = "rexmit"
          /\ stats_fired' = 0
          /\ rexmit_fired' = rexmit_fired /\ ipaddr_fired' = ipaddr_fired
          /\ out' = IF stats_fired = 1 /\ Connected(RESERVED_CHANNEL)
                    THEN <<[write_message(RESERVED_CHANNEL, <<>>) EXCEPT !.via = "stats"]>>
                    ELSE <<>>
    /\ pc = "rexmit" =>
          /\ pc' = "ipaddr"
          /\ rexmit_fired' = 0
          /\ stats_fired' = stats_fired /\ ipaddr_fired' = ipaddr_fired
          /\ out' = IF rexmit_fired = 1 /\ ~serial.rexmit_acked
                    THEN <<rethos_rexmit_data_frame(serial)>> ELSE <<>>
    /\ pc = "ipaddr" =>
          /\ pc' = IF activity = -1 THEN "pselect" ELSE "serial"
          /\ ipaddr_fired' = 0
          /\ stats_fired' = stats_fired /\ rexmit_fired' = rexmit_fired
          /\ out' = IF ipaddr_fired = 1
                    THEN <<rethos_send_data_frame(serial, mcu_addr_rsp_frame, CMD_CHANNEL)>>
                    ELSE <<>>
          /\ nsent' = nsent + ipaddr_fired

\* no flag is still set when a descriptor is serviced or the loop waits again,
\* and a wakeup by a tick alone services no descriptor
NoneLeft ==
    /\ pc' = "rexmit" => stats_fired' = 0
    /\ pc' = "ipaddr" => (stats_fired' = 0 /\ rexmit_fired' = 0)
    /\ (pc' \notin FlagPoints /\ ~(pc' = "pselect" /\ interrupted')) =>
          (stats_fired' = 0 /\ rexmit_fired' = 0 /\ ipaddr_fired' = 0)
    /\ pc' \notin FlagPoints \cup {"pselect"} => activity' # -1
    /\ (pc' \in FlagPoints /\ activity' # -1) =>
          (stats_fired' = 0 /\ rexmit_fired' = 0 /\ ipaddr_fired' = 0)

\* C28: the three flags are set only by timer_handler and only while the loop
\* is inside pselect; after every return of pselect each set flag is cleared
\* and its action done once, in the order STATS, REXMIT, IPADDR, before any
\* descriptor is looked at, and after a return with EINTR no descriptor is
\* serviced.
C28_Ticks == [][SetInWait /\ HandledInOrder /\ NoneLeft]_vars

\* the STATS and the IPADDR tick have been handled, the address frame was sent
\* as the last action of a wakeup with EINTR, and the loop waits again
C28_Witness ==
    /\ pc = "pselect"
    /\ activity = -1
    /\ nsent = 1
    /\ out = <<rethos_send_data_frame(serial_init, mcu_addr_rsp_frame, CMD_CHANNEL)>>
    /\ events_left = 0
    /\ rexmits = 0
    /\ stats_fired = 0 /\ rexmit_fired = 0 /\ ipaddr_fired = 0

ArmedIffUnacked == pc = "pselect" => (rexmit_armed <=> ~serial.rexmit_acked)

\* the step called rethos_send_data_frame
DataSendStep == \E k \in 1..Len(out') : out'[k].via = "data"

\* the step accepted an ACK frame carrying the seqno of the retransmit slot
MatchingAckStep ==
    /\ FrameReadyStep
    /\ serial'.channel = RESERVED_CHANNEL
    /\ serial'.frametype = RETHOS_FRAME_TYPE_ACK
    /\ serial'.in_seqno = serial.rexmit_seqno

ArmingStep ==
    IF DataSendStep THEN rexmit_armed' /\ ~serial'.rexmit_acked
    ELSE IF MatchingAckStep THEN ~rexmit_armed' /\ serial'.rexmit_acked
    ELSE rexmit_armed' = rexmit_armed /\ serial'.rexmit_acked = serial.rexmit_acked

\* C29: whenever the loop waits in pselect the REXMIT timer is armed exactly
\* when rexmit_acked is false: each DATA send arms it and clears rexmit_acked,
\* a matching ACK disarms it and sets rexmit_acked, nothing else changes either.
C29_ArmedIffUnacked == ArmedIffUnacked /\ [][ArmingStep /\ ArmedIffUnacked']_vars

\* a DATA frame was sent and its ACK accepted; the loop waits with the timer off
C29_Witness ==
    /\ pc = "pselect"
    /\ nsent >= 1
    /\ acked = {serial.rexmit_seqno}
    /\ serial.rexmit_acked
    /\ ~rexmit_armed

(***************************************************************************)
(* Counter harness: pselect has returned with a frame of the peer in inbuf  *)
(* and, in some runs, a connected client readable; the loop goes once       *)
(* through the serial bytes, standard input, the tunnel and the channels.   *)
(***************************************************************************)
InitCount ==
    /\ charSigned \in BOOLEAN
    /\ tun_fd \in {NO_FD, TUN_FD}
    /\ mcu_addr_rsp_frame \in RspFrames(tun_fd)
    /\ mcu_addr_rsp_frame[2] = 0
    /\ serial = serial_init
    /\ StartedHistory(0)
    /\ event = NO_EVENT
    /\ pc = "serial_loop"
    /\ interrupted = FALSE
    /\ stats_fired = 0
    /\ rexmit_fired = 0
    /\ ipaddr_fired = 0
    /\ rexmit_pending = FALSE
    /\ stats = stats_init
    /\ \E cc \in RouteClients, readable \in BOOLEAN :
         /\ domain_sockets = [c \in Slots |-> IF c = cc THEN accept_client(c)
                                               ELSE channel_listen(c)]
         /\ readable => cc # NUM_CHANNELS
         /\ readfds = {serial_fd} \cup (IF readable THEN {ClientFd(cc)} ELSE {})
         /\ activity = Cardinality(readfds)
    /\ have_stdin = TRUE
    /\ out = <<>>
    /\ client_in = [c \in Slots |-> no_stream]
    /\ client_read = no_read
    /\ delivered = [c \in Slots |-> <<>>]
    /\ wire_in = <<>>
    /\ events_left = 0
    /\ rx = [ready |-> 0, dropped |-> 0]
    /\ i = 0
    /\ \E ch \in RouteChannels, d \in RoutePayloads :
         LET f == PeerFrame(RETHOS_FRAME_TYPE_DATA, 1, ch, d) IN
         /\ tx = f
         /\ inbuf = WireFrame(f)
         /\ peer = [seqno |-> 1, last |-> f]
         /\ peer_sent = [c \in Slots |-> IF c = Slot(ch) THEN <<d>> ELSE <<>>]

NextCount == SerialByte \/ StdinStep \/ TunStep \/ ChannelStep

SpecCount == InitCount /\ [][NextCount]_vars

\* the sum of counter f over the channels of S
RECURSIVE ChannelSum(_, _)
ChannelSum(f, S) ==
    IF S = {} THEN 0
    ELSE LET c == CHOOSE x \in S : TRUE IN f[c] + ChannelSum(f, S \ {c})

CountersConsistent ==
    /\ stats.global.serial_received
          = ChannelSum([c \in Slots |-> stats.channel[c].serial_received], Slots)
    /\ stats.global.domain_forwarded
          = ChannelSum([c \in Slots |-> stats.channel[c].domain_forwarded], Slots)
    /\ stats.global.domain_received
          = ChannelSum([c \in Slots |-> stats.channel[c].domain_received], Slots)
    /\ stats.global.serial_forwarded
          = ChannelSum([c \in Slots |-> stats.channel[c].serial_forwarded], Slots)
    /\ stats.global.drop_notconnected
          = ChannelSum([c \in Slots |-> stats.channel[c].drop_notconnected],
                       Slots \ {STDIN_CHANNEL, TUNTAP_CHANNEL})

\* C30: the global counters serial_received, domain_forwarded, domain_received
\* and serial_forwarded each equal the sum of the per-channel counter over all
\* channels, and the global drop_notconnected equals the sum of the per-channel
\* drop_notconnected over the channels other than 1 and 3.
C30_CountersConsistent == CountersConsistent

\* a frame for channel 1 was dropped for lack of a client, counted for the
\* channel and not globally, and a client's message was forwarded to the line
C30_Witness ==
    /\ stats.channel[STDIN_CHANNEL].drop_notconnected = 1
    /\ stats.channel[STDIN_CHANNEL].serial_received = 1
    /\ stats.global.drop_notconnected = 0
    /\ stats.global.serial_received = 1
    /\ stats.global.domain_received = 1
    /\ stats.global.serial_forwarded = 1
    /\ stats.channel[4].serial_forwarded = 1

\* the positions of w at which ESC stands directly before the byte b
EscBefore(w, b) == {k \in 1..Len(w) - 1 : w[k] = RETHOS_ESC_CHAR /\ w[k + 1] = b}

\* the Fletcher-16 checksum of the header and payload of the encoded frame
FrameChecksum ==
    LET r == fletcher16_add(<<tx.frame_type, tx.seqno % U8, (tx.seqno \div U8) % U8,
                              tx.channel>> \o tx.data, 255, 255)
    IN  fletcher16_fin(r[1], r[2])

\* w starts with ESC FRAME_START, holds ESC FRAME_END once, ends with the
\* escaped checksum, low byte first, and every other ESC stands before
\* LITERAL_ESC
WellFormed(w) ==
    /\ Len(w) >= 2
    /\ SubSeq(w, 1, 2) = _start_frame
    /\ Cardinality(EscBefore(w, RETHOS_FRAME_END)) = 1
    /\ \A e \in EscBefore(w, RETHOS_FRAME_END) :
          /\ SubSeq(w, e + 2, Len(w))
                = WireEscape(<<FrameChecksum % U8, (FrameChecksum \div U8) % U8>>)
          /\ \A k \in 2..Len(w) :
                (w[k] = RETHOS_ESC_CHAR /\ k # e) =>
                    (k < Len(w) /\ w[k + 1] = RETHOS_LITERAL_ESC)

\* C31: the bytes _send_frame writes begin with ESC FRAME_START, contain
\* ESC FRAME_END exactly once, end with the escaped two-byte little-endian
\* checksum, and every other 0xBE in them, in the header and the checksum as
\* in the payload, is followed by LITERAL_ESC.
C31_EncoderWellFormed == tx.flip_at = 0 => WellFormed(inbuf)

\* Where plain char is unsigned the encoder's output is well formed.
EncoderUnsignedChar == (~charSigned /\ tx.flip_at = 0) => WellFormed(inbuf)

====
